---------------------------- MODULE Spec2Model ----------------------------
(***************************************************************************)
(* PlantBuddy: the wallet connector (services/suiWalletService.ts in its   *)
(* two revisions and the revision kept as unnamed/part_000), the Walrus    *)
(* upload clients, the chat-history merge of geminiService.ts, the export  *)
(* script of App.processUpload and the session transcript of the           *)
(* DeviceMonitor component.  Each subsystem has its own specification;     *)
(* the variables of the other subsystems stay at their initial values.     *)
(***************************************************************************)
EXTENDS Integers, Sequences, FiniteSets, TLC

VARIABLES
    \* ---- wallet connector ----
    rev,                 \* which revision of suiWalletService runs (1, 2, 3)
    present,             \* wallet objects injected / announced so far
    wpc,                 \* connectSuiWallet: "idle", "sleep", "call", "done"
    checks,              \* presence checks performed by waitForWallet
    found,               \* what waitForWallet returned
    step,                \* index of the strategy whose wallet call is awaited
    callee,              \* the wallet object that call went to
    connResult,          \* how the last connectSuiWallet settled
    activeWalletAdapter, \* the module-level adapter reference
    disconnectResult,    \* how the last disconnectSuiWallet settled
    \* history of the current connect call
    presentAtLastCheck,  \* wallets present at the latest presence check
    presentAtWaitEnd,    \* wallets present when waitForWallet returned
    denied,              \* some wallet call of this connect failed
    adapterAtStart,      \* activeWalletAdapter when the call began
    everConnected,       \* some connect has resolved with an address
    detected,            \* detectedWallets: names the register listener stored
    tried,               \* objects this connect call has contacted, in order
    granted,             \* window.suiWallet already reports an account
    askedPermission,     \* this connect called suiWallet.requestPermissions()
    walletAddress,       \* App: the address shown, NULL when disconnected
    firstAccount,        \* accounts[0] of the standard wallet: "same" as at
                         \* the last connect, or "switched" since
    \* the adapter in use (getWalletAdapter, signAndExecuteTransactionBlock)
    walletDisconnect,    \* how the wallet's own disconnect() last settled
    canSign,             \* the standard wallet has the chain's sign feature
    signer,              \* what the last getWalletAdapter() returned
    signResult,          \* NONE, "forwarded", "unsupported", "noadapter"
    forwarded,           \* the request the last sign call handed to the wallet
    disconnecting,       \* disconnect clicks whose wallet call has not settled
    alerted,             \* App has shown the 'not installed' alert
    \* ---- Walrus upload ----
    ufn,                 \* the upload function that runs
    network,             \* the network argument of the upload
    nPub,                \* publisher endpoints it has
    upc,                 \* "idle", "fetch" (a request is outstanding), "done"
    ui,                  \* index of the endpoint being tried
    replies,             \* the response each endpoint gives when contacted
    uresult,             \* how the upload settled
    outstanding,         \* publishers whose request has not completed
    \* ---- export script (App.processUpload) ----
    currentSessionData,  \* the transcript handed to the export dialog
    blobScript,          \* the exported script, NONE before it is built
    isModalOpen,         \* the export dialog is shown
    uploadStep,          \* "IDLE", "ANALYZING", "ENCRYPTING", "UPLOADING", "SUCCESS"
    mintedBlob,          \* NULL or the identifier of the minted record
    marketplaceListings, \* identifiers of the listed records, newest first
    runs,                \* processUpload runs suspended at each await
    runsStarted,         \* processUpload runs started
    failures,            \* runs that ended in the catch clause
    succeeded,           \* runs that ended with SUCCESS
    savedAt,             \* `succeeded` at the last handleSaveSession
    analysis,            \* what the last analyzeDatasetValue call got and settled with
    \* ---- chat contents (generatePlantResponse) ----
    history,             \* the history argument
    contents,            \* the turns built for the chat API
    gpc,                 \* "loop", "merged" (history consumed), "sent"
    consumed,            \* history messages the loop has processed
    \* ---- DeviceMonitor session ----
    isRecording,         \* a session is active (isRecordingRef follows it)
    isProcessing,        \* an interaction is being processed
    isTouching,          \* isTouchingRef.current
    sessionData,         \* the transcript: points [timestamp, kind]
    messages,            \* the chat log: roles
    now,                 \* Date.now()
    inflight,            \* interactions awaiting generatePlantResponse
    sysTimers,           \* pending 500 ms timers of toggleSession
    touchTimers,         \* pending 500 ms timers of handleTouchStart
    listening,           \* NONE, or what the onresult closure saw: "idle", "busy"
    started,             \* interactions that passed the entry check
    staleTimers,         \* pending touch timers whose touch was released
    touchStarts,         \* TOUCH interactions started during the current touch
    \* ---- chat completion (generatePlantResponse, retry loop) ----
    grev,                \* revision of geminiService.ts: 1 or 2
    hasKey,              \* getApiKey() returns a key
    cpc,                 \* "idle", "request", "backoff", "done"
    attempt,             \* the loop variable
    requests,            \* generateContent calls made
    lastError,           \* <<>> (null) or <<message>>
    gresult,             \* how the call settled
    \* ---- serial input (readSerialLoop, parseSerialLine) ----
    isConnected,         \* the read loop is running
    bufferString,        \* the unterminated rest of the input
    hardwareBuffer,      \* hardwareBufferRef.current: topPoint, interpolated, raw
    rawSerialBuffer,     \* the last lines received
    rxActive,            \* the receive indicator
    rxTimers,            \* pending 100 ms timers that clear the indicator
    chunksRead,          \* reads that delivered data
    lastLines,           \* the lines the last read handed to parseSerialLine
    isSimulationEnabled, \* TEST MODE
    simLines,            \* lines the simulation wrote to the raw monitor
    \* ---- on-chain certification (certifyBlobOnChain) ----
    crev,                \* the revision that runs: "main", "part_002", "part_003"
    cin,                 \* the arguments and the configuration of the call
    cstep,               \* "idle", "sign" (the wallet call is awaited), "done"
    cout                 \* how the call settled

walletVars == <<rev, present, wpc, checks, found, step, callee, connResult,
                activeWalletAdapter, disconnectResult, presentAtLastCheck,
                presentAtWaitEnd, denied, adapterAtStart, everConnected,
                detected, tried, granted, askedPermission, walletAddress,
                firstAccount, walletDisconnect, canSign, signer, signResult,
                forwarded, disconnecting, alerted>>

\* What connectSuiWallet, disconnectSuiWallet and the wallets' arrival leave alone.
adapterVars == <<walletDisconnect, canSign, signer, signResult, forwarded,
                 disconnecting, alerted>>

uploadVars == <<ufn, network, nPub, upc, ui, replies, uresult, outstanding>>

scriptVars == <<currentSessionData, blobScript, isModalOpen, uploadStep, mintedBlob,
                marketplaceListings, runs, runsStarted, failures, succeeded, savedAt,
                analysis>>

chatVars == <<history, contents, gpc, consumed>>

sessionVars == <<isRecording, isProcessing, isTouching, sessionData, messages, now,
                 inflight, sysTimers, touchTimers, listening, started,
                 staleTimers, touchStarts>>

completionVars == <<grev, hasKey, cpc, attempt, requests, lastError, gresult>>

serialVars == <<isConnected, bufferString, hardwareBuffer, rawSerialBuffer, rxActive,
                rxTimers, chunksRead, lastLines, isSimulationEnabled, simLines>>

certifyVars == <<crev, cin, cstep, cout>>

vars == <<walletVars, uploadVars, scriptVars, chatVars, sessionVars, completionVars,
          serialVars, certifyVars>>

\* What the actions of one subsystem leave alone.
nonWalletVars == <<uploadVars, scriptVars, chatVars, sessionVars, completionVars, serialVars,
    certifyVars>>
nonUploadVars == <<walletVars, scriptVars, chatVars, sessionVars, completionVars, serialVars,
    certifyVars>>
nonScriptVars == <<walletVars, uploadVars, chatVars, sessionVars, completionVars, serialVars,
    certifyVars>>
nonChatVars == <<walletVars, uploadVars, scriptVars, sessionVars, completionVars, serialVars,
    certifyVars>>
nonSessionVars == <<walletVars, uploadVars, scriptVars, chatVars, completionVars, serialVars,
    certifyVars>>
nonCompletionVars == <<walletVars, uploadVars, scriptVars, chatVars, sessionVars, serialVars,
    certifyVars>>
nonCertifyVars == <<walletVars, uploadVars, scriptVars, chatVars, sessionVars,
    completionVars, serialVars>>
nonSerialVars == <<walletVars, uploadVars, scriptVars, chatVars, sessionVars, completionVars,
    certifyVars>>

NULL == "null"
NONE == "none"

(***************************************************************************)
(* Wallet connector                                                        *)
(***************************************************************************)

\* Polling checks of waitForWallet (10 in revision 1 and part_000, 100 in
\* revision 2), scaled down.
Retries == 3

Revisions == {1, 2, 3}

\* Wallet shapes of the environment:
\*   nav        a standard wallet named 'Sui Wallet' listed by navigator.getWallets()
\*   evt        a standard wallet (name contains 'sui') announced through the
\*              'wallet-standard:register-wallet' event
\*   suiWallet, suiet, sui   the legacy globals
\*   dyn        another window property with a wallet-like key and methods
Kinds == {"nav", "evt", "suiWallet", "suiet", "sui", "dyn"}

Range(q) == {q[i] : i \in 1..Len(q)}

\* The callback of the 'wallet-standard:register-wallet' listener: a name not
\* yet stored is pushed.  The listener exists in revision 1 and part_000 only.
Register(r, d, name) ==
    IF r = 2 THEN d
    ELSE IF name \in Range(d) THEN d ELSE Append(d, name)

\* detectedWallets, as the set of wallets it holds.
detectedWallets(r, P) == P \cap Range(detected)

\* getStandardWallets: the event cache, then navigator.getWallets().
getStandardWallets(r, P) == detectedWallets(r, P) \cup (P \cap {"nav"})

hasLegacyWallet(P) == P \cap {"suiWallet", "suiet", "sui"} # {}

checkSuiWalletInstalled(r, P) ==
    IF r = 2
    THEN \/ hasLegacyWallet(P)
         \/ "nav" \in P
         \/ "dyn" \in P
    ELSE getStandardWallets(r, P) # {} \/ hasLegacyWallet(P)

\* The connection strategies in the order connectSuiWallet tries them; a
\* strategy lists its candidate objects in order of preference.
StrategiesLegacyFirst(r) ==
    CASE r = 1 -> << <<"suiWallet">>, <<"nav", "evt">>, <<"suiet">> >>
      [] r = 3 -> << <<"suiWallet">>, <<"nav", "evt">>, <<"suiet">>, <<"sui">> >>
      [] r = 2 -> << <<"suiWallet">>, <<"nav">>, <<"suiet">>, <<"sui">>, <<"dyn">> >>
Strategies(r) ==
    CASE r = 1 -> << <<"nav", "evt">>, <<"suiWallet">>, <<"suiet">> >>
      [] r = 3 -> << <<"nav", "evt">>, <<"suiWallet">>, <<"suiet">>, <<"sui">> >>
      [] r = 2 -> << <<"nav">>, <<"suiWallet">>, <<"suiet">>, <<"sui">>, <<"dyn">> >>

\* The object strategy s would call, NONE when the strategy does not apply.
StepTarget(r, s, P) ==
    LET c == Strategies(r)[s]
        ok == {j \in 1..Len(c) : c[j] \in P}
    IN IF ok = {} THEN NONE
       ELSE c[CHOOSE j \in ok : \A j2 \in ok : j <= j2]

\* The first applicable strategy from index `from` on, 0 when none is left.
NextStep(r, P, from) ==
    LET ok == {s \in from..Len(Strategies(r)) : StepTarget(r, s, P) # NONE}
    IN IF ok = {} THEN 0 ELSE CHOOSE s \in ok : \A s2 \in ok : s <= s2

\* Whether a throwing wallet call of this strategy is caught by a try/catch of
\* its own (otherwise it reaches the outer catch, which rethrows).
Caught(r, k) ==
    CASE r = 2 -> TRUE
      [] r = 3 -> k \in {"nav", "evt", "sui"}
      [] r = 1 -> k \in {"nav", "evt"}

\* The error thrown when every strategy is exhausted.
FinalError(r) == IF r = 1 THEN "Rejected" ELSE "NotFound"

\* Revision 1 fails when the wait times out; the others connect anyway.
FailOnTimeoutAlways(r) == TRUE
FailOnTimeout(r) == r = 1

\* The loop condition of waitForWallet, negated: no check is left.
WaitExhaustedEarly(c) == c >= 1
WaitExhausted(c) == c >= Retries

Addr(k) == <<"addr", k>>

\* The address state of App before a connect and after a disconnect (null).
NoAddress == <<>>

\* What a successful connect through k stores: the wrapper for a standard
\* wallet, the global object itself for the others; revision 1 has no adapter.
AdapterOf(r, k) ==
    IF k = "nav" THEN "wrapper(nav)"
    ELSE IF k = "evt" THEN "wrapper(evt)"
    ELSE k

SetAdapterKeepFirst(r, old, k) == IF old # NULL THEN old ELSE AdapterOf(r, k)
SetAdapter(r, old, k) == IF r = 1 THEN old ELSE AdapterOf(r, k)

Ok(a)  == [kind |-> "ok", addr |-> a, err |-> NONE]
Err(e) == [kind |-> "err", addr |-> NONE, err |-> e]
NoResult == [kind |-> NONE, addr |-> NONE, err |-> NONE]

WalletInit ==
    /\ rev \in Revisions
    /\ present \in SUBSET Kinds
    /\ wpc = "idle"
    /\ checks = 0
    /\ found = FALSE
    /\ step = 0
    /\ callee = NONE
    /\ connResult = NoResult
    /\ activeWalletAdapter = NULL
    /\ disconnectResult = NONE
    /\ presentAtLastCheck = {}
    /\ presentAtWaitEnd = {}
    /\ denied = FALSE
    /\ adapterAtStart = NULL
    /\ everConnected = FALSE
    /\ detected = (IF "evt" \in present THEN Register(rev, <<>>, "evt") ELSE <<>>)
    /\ tried = <<>>
    /\ granted \in BOOLEAN
    /\ askedPermission = FALSE
    /\ walletAddress = NoAddress
    /\ firstAccount = "same"
    /\ walletDisconnect = NONE
    /\ canSign \in BOOLEAN
    /\ signer = NONE
    /\ signResult = NONE
    /\ forwarded = <<>>
    /\ disconnecting = 0
    /\ alerted = FALSE

\* A wallet extension injects its object or announces itself.
Inject(k) ==
    /\ k \notin present
    /\ present' = present \cup {k}
    /\ detected' = (IF k = "evt" THEN Register(rev, detected, k) ELSE detected)
    /\ UNCHANGED <<rev, wpc, checks, found, step, callee, connResult,
                   activeWalletAdapter, disconnectResult, presentAtLastCheck,
                   presentAtWaitEnd, denied, adapterAtStart, everConnected,
                   tried, granted, askedPermission, walletAddress,
                   firstAccount>>
    /\ UNCHANGED adapterVars
    /\ UNCHANGED nonWalletVars

\* A standard wallet that has announced itself dispatches the event again.
Announce(k) ==
    /\ k \in present \cap {"evt"}
    /\ detected' = Register(rev, detected, k)
    /\ UNCHANGED <<rev, present, wpc, checks, found, step, callee, connResult,
                   activeWalletAdapter, disconnectResult, presentAtLastCheck,
                   presentAtWaitEnd, denied, adapterAtStart, everConnected,
                   tried, granted, askedPermission, walletAddress,
                   firstAccount>>
    /\ UNCHANGED adapterVars
    /\ UNCHANGED nonWalletVars

\* The objects contacted so far, once the synchronous run has stopped at
\* phase p with the call to object k outstanding.
Contacted(base, p, k) == IF p = "call" THEN Append(base, k) ELSE base

\* The synchronous run of the strategies from index `from`: up to the first
\* wallet call (an await), or to the final throw.
RunStrategies(from) ==
    LET s == NextStep(rev, present, from)
    IN IF s = 0
       THEN /\ wpc' = "done"
            /\ connResult' = Err(FinalError(rev))
            /\ step' = 0
            /\ callee' = NONE
       ELSE /\ wpc' = "call"
            /\ connResult' = NoResult
            /\ step' = s
            /\ callee' = StepTarget(rev, s, present)

\* waitForWallet returned f: the timeout fails revision 1, otherwise the
\* strategies run.
WaitReturns(f) ==
    /\ found' = f
    /\ presentAtWaitEnd' = present
    /\ IF ~f /\ FailOnTimeout(rev)
       THEN /\ wpc' = "done"
            /\ connResult' = Err("NotFound")
            /\ step' = 0
            /\ callee' = NONE
       ELSE RunStrategies(1)

\* One presence check of waitForWallet and what follows it synchronously.
PollCheck ==
    /\ checks' = checks + 1
    /\ presentAtLastCheck' = present
    /\ IF checkSuiWalletInstalled(rev, present)
       THEN WaitReturns(TRUE)
       ELSE /\ wpc' = "sleep"
            /\ UNCHANGED <<found, presentAtWaitEnd, connResult, step, callee>>

\* connectSuiWallet is called: the first check runs at once.
ConnectStart ==
    /\ wpc \in {"idle", "done"}
    /\ denied' = FALSE
    /\ adapterAtStart' = activeWalletAdapter
    /\ checks' = 1
    /\ presentAtLastCheck' = present
    /\ IF checkSuiWalletInstalled(rev, present)
       THEN WaitReturns(TRUE)
       ELSE /\ wpc' = "sleep"
            /\ found' = FALSE
            /\ presentAtWaitEnd' = {}
            /\ connResult' = NoResult
            /\ step' = 0
            /\ callee' = NONE
    /\ tried' = Contacted(<<>>, wpc', callee')
    /\ askedPermission' = FALSE
    /\ UNCHANGED <<rev, present, activeWalletAdapter, disconnectResult, everConnected,
                   detected, granted, walletAddress, firstAccount>>
    /\ UNCHANGED adapterVars
    /\ UNCHANGED nonWalletVars

\* The polling delay ends: the next check, or the timeout.
PollWake ==
    /\ wpc = "sleep"
    /\ IF WaitExhausted(checks)
       THEN /\ WaitReturns(FALSE)
            /\ UNCHANGED <<checks, presentAtLastCheck>>
       ELSE PollCheck
    /\ tried' = Contacted(tried, wpc', callee')
    /\ UNCHANGED <<rev, present, activeWalletAdapter, disconnectResult, denied,
                   adapterAtStart, everConnected, detected, granted,
                   askedPermission, walletAddress, firstAccount>>
    /\ UNCHANGED adapterVars
    /\ UNCHANGED nonWalletVars

\* The legacy suiWallet step: revision 2 reads getAccounts() first and asks
\* for permission only when that gave no account; revision 1 and part_000
\* call requestPermissions() before anything else.
AsksPermission(r, has) == r # 2 \/ ~has

\* The outcomes a step on object k can have: in revision 2 a suiWallet that
\* already reports an account is returned from at once.
Outcomes(r, k, has) ==
    IF r = 2 /\ k = "suiWallet" /\ has THEN {"grant"} ELSE {"grant", "deny", "throw"}

\* The awaited wallet call settles: it yields an account, yields none, or throws.
ConnectReturn(outcome) ==
    /\ wpc = "call"
    /\ outcome \in Outcomes(rev, callee, granted)
    /\ CASE outcome = "grant" ->
              /\ activeWalletAdapter' = SetAdapter(rev, activeWalletAdapter, callee)
              /\ connResult' = Ok(Addr(callee))
              /\ wpc' = "done"
              /\ everConnected' = TRUE
              /\ walletAddress' = Addr(callee)
              /\ firstAccount' = "same"
              /\ UNCHANGED <<denied, step, callee>>
         [] outcome = "deny" ->
              /\ denied' = TRUE
              /\ RunStrategies(step + 1)
              /\ UNCHANGED <<activeWalletAdapter, everConnected, walletAddress, firstAccount>>
         [] outcome = "throw" ->
              /\ denied' = TRUE
              /\ IF Caught(rev, callee)
                 THEN RunStrategies(step + 1)
                 ELSE /\ wpc' = "done"
                      /\ connResult' = Err("WalletError")
                      /\ UNCHANGED <<step, callee>>
              /\ UNCHANGED <<activeWalletAdapter, everConnected, walletAddress, firstAccount>>
    /\ tried' = (IF outcome = "grant" THEN tried ELSE Contacted(tried, wpc', callee'))
    /\ askedPermission' = (askedPermission
                              \/ (callee = "suiWallet" /\ AsksPermission(rev, granted)))
    /\ UNCHANGED <<rev, present, checks, found, disconnectResult,
                   presentAtLastCheck, presentAtWaitEnd, adapterAtStart,
                   detected, granted>>
    /\ UNCHANGED adapterVars
    /\ UNCHANGED nonWalletVars

\* The object whose disconnect disconnectSuiWallet calls, NONE when there is none.
DisconnectTarget(r, P) ==
    CASE r # 2 /\ "nav" \in P -> "nav"
      [] OTHER -> IF "suiWallet" \in P THEN "suiWallet"
                  ELSE IF "suiet" \in P THEN "suiet" ELSE NONE

\* How disconnectSuiWallet settles when the wallet's disconnect settles as
\* `outcome`: the try/catch swallows a failure.
DisconnectSettlesRethrow(target, outcome) ==
    IF target # NONE /\ outcome = "throw" THEN "rejected" ELSE "resolved"
DisconnectSettles(target, outcome) == "resolved"

disconnectSuiWallet(outcome) ==
    /\ activeWalletAdapter' = NULL
    /\ disconnectResult' = DisconnectSettles(DisconnectTarget(rev, present), outcome)
    /\ UNCHANGED <<rev, present, wpc, checks, found, step, callee, connResult,
                   presentAtLastCheck, presentAtWaitEnd, denied, adapterAtStart,
                   everConnected, detected, tried, granted, askedPermission,
                   walletAddress, firstAccount>>
    /\ UNCHANGED adapterVars
    /\ UNCHANGED nonWalletVars

WalletIdle ==
    /\ rev = 2
    /\ present = {}
    /\ wpc = "idle"
    /\ checks = 0
    /\ found = FALSE
    /\ step = 0
    /\ callee = NONE
    /\ connResult = NoResult
    /\ activeWalletAdapter = NULL
    /\ disconnectResult = NONE
    /\ presentAtLastCheck = {}
    /\ presentAtWaitEnd = {}
    /\ denied = FALSE
    /\ adapterAtStart = NULL
    /\ everConnected = FALSE
    /\ detected = <<>>
    /\ tried = <<>>
    /\ granted = FALSE
    /\ askedPermission = FALSE
    /\ walletAddress = NoAddress
    /\ firstAccount = "same"
    /\ walletDisconnect = NONE
    /\ canSign = TRUE
    /\ signer = NONE
    /\ signResult = NONE
    /\ forwarded = <<>>
    /\ disconnecting = 0
    /\ alerted = FALSE

WalletNext ==
    \/ \E k \in Kinds : Inject(k)
    \/ \E k \in Kinds : Announce(k)
    \/ ConnectStart
    \/ PollWake
    \/ \E o \in {"grant", "deny", "throw"} : ConnectReturn(o)
    \/ \E o \in {"ok", "throw"} : disconnectSuiWallet(o)

(***************************************************************************)
(* The wallet button of App and the adapter handed to signing code         *)
(***************************************************************************)

\* App.handleConnectWallet after `await disconnectSuiWallet()`: the address
\* is cleared when the await returns, kept when it throws.
AddressKept(settled, address) == address
AddressAfterDisconnect(settled, address) ==
    IF settled = "resolved" THEN NoAddress ELSE address

\* Disconnect clicks that may be waiting for the wallet at one time.
MaxDisconnects == 2

\* isConnecting: set before connectSuiWallet is called, reset when it settles.
isConnecting == wpc \in {"sleep", "call"}

\* The presence test of handleConnectWallet.
InstalledAtClickAlways(r, P) == TRUE
InstalledAtClick(r, P) == checkSuiWalletInstalled(r, P)

\* handleConnectWallet with no address shown: the presence test, then
\* connectSuiWallet (the address is stored when ConnectReturn grants one).
\* The button is disabled while isConnecting.
handleConnectWallet ==
    /\ walletAddress = NoAddress
    /\ InstalledAtClick(rev, present)
    /\ ConnectStart

\* handleConnectWallet with no address shown and no wallet detected: the
\* alert and the store page, nothing else.
handleConnectWalletAlert ==
    /\ ~isConnecting
    /\ walletAddress = NoAddress
    /\ ~InstalledAtClick(rev, present)
    /\ alerted' = TRUE
    /\ UNCHANGED <<rev, present, wpc, checks, found, step, callee, connResult,
                   activeWalletAdapter, disconnectResult, presentAtLastCheck,
                   presentAtWaitEnd, denied, adapterAtStart, everConnected,
                   detected, tried, granted, askedPermission, walletAddress,
                   firstAccount, walletDisconnect, canSign, signer, signResult,
                   forwarded, disconnecting>>
    /\ UNCHANGED nonWalletVars

\* handleConnectWallet with an address shown: disconnectSuiWallet clears the
\* adapter and calls the wallet's disconnect, if there is a wallet to call;
\* without one it returns and the address is cleared.
handleDisconnectWallet ==
    /\ walletAddress # NoAddress
    /\ activeWalletAdapter' = NULL
    /\ IF DisconnectTarget(rev, present) = NONE
       THEN /\ disconnectResult' = "resolved"
            /\ walletDisconnect' = NONE
            /\ walletAddress' = AddressAfterDisconnect("resolved", walletAddress)
            /\ UNCHANGED disconnecting
       ELSE /\ disconnecting < MaxDisconnects
            /\ disconnecting' = disconnecting + 1
            /\ UNCHANGED <<disconnectResult, walletDisconnect, walletAddress>>
    /\ UNCHANGED <<rev, present, wpc, checks, found, step, callee, connResult,
                   presentAtLastCheck, presentAtWaitEnd, denied, adapterAtStart,
                   everConnected, detected, tried, granted, askedPermission,
                   firstAccount, canSign, signer, signResult, forwarded, alerted>>
    /\ UNCHANGED nonWalletVars

\* The wallet's disconnect settles as `outcome`: disconnectSuiWallet returns
\* and handleConnectWallet clears the address.
DisconnectReturns(outcome) ==
    /\ disconnecting > 0
    /\ disconnecting' = disconnecting - 1
    /\ disconnectResult' = DisconnectSettles(DisconnectTarget(rev, present), outcome)
    /\ walletDisconnect' = outcome
    /\ walletAddress' = AddressAfterDisconnect(disconnectResult', walletAddress)
    /\ UNCHANGED <<rev, present, wpc, checks, found, step, callee, connResult,
                   activeWalletAdapter, presentAtLastCheck, presentAtWaitEnd, denied,
                   adapterAtStart, everConnected, detected, tried, granted,
                   askedPermission, firstAccount, canSign, signer, signResult,
                   forwarded, alerted>>
    /\ UNCHANGED nonWalletVars

\* The user makes another account the first one of the connected standard wallet.
AccountsChange ==
    /\ activeWalletAdapter \in {"wrapper(nav)", "wrapper(evt)"}
    /\ firstAccount = "same"
    /\ firstAccount' = "switched"
    /\ UNCHANGED <<rev, present, wpc, checks, found, step, callee, connResult,
                   activeWalletAdapter, disconnectResult, presentAtLastCheck,
                   presentAtWaitEnd, denied, adapterAtStart, everConnected,
                   detected, tried, granted, askedPermission, walletAddress>>
    /\ UNCHANGED adapterVars
    /\ UNCHANGED nonWalletVars

\* getWalletAdapter: the cached adapter, else the first legacy global.
getWalletAdapterSuietFirst(adapter, P) ==
    IF adapter # NULL THEN adapter
    ELSE IF "suiet" \in P THEN "suiet"
    ELSE IF "suiWallet" \in P THEN "suiWallet"
    ELSE IF "sui" \in P THEN "sui"
    ELSE NULL
getWalletAdapter(adapter, P) ==
    IF adapter # NULL THEN adapter
    ELSE IF "suiWallet" \in P THEN "suiWallet"
    ELSE IF "suiet" \in P THEN "suiet"
    ELSE IF "sui" \in P THEN "sui"
    ELSE NULL

\* The standard wallet a wrapper adapter closes over.
Wrapped(a) == IF a = "wrapper(nav)" THEN "nav" ELSE "evt"

\* accounts[0] and chains[0] of standard wallet k as they are now.
CurrentFirstAccount(k, first) == IF first = "same" THEN Addr(k) ELSE <<"addr", "other">>
FirstChain(k) == <<"chain", k>>

\* The inputs a caller passes: with or without an account and a chain of its own.
SignInputs ==
    {[tx |-> "tx", account |-> a, chain |-> c] :
        a \in {<<"addr", NONE>>, <<"addr", "caller">>},
        c \in {<<"chain", NONE>>, <<"chain", "caller">>}}

\* The wrapper's feature test.
SignSupportedAlways(can) == TRUE
SignSupported(can) == can

\* What the wrapper passes on: the input with account and chain replaced.
\* Revision 2 uses the account the connect call returned, part_000 the
\* wallet's accounts[0] at the time of the request.
StandardRequest(r, k, input, first) ==
    [tx |-> input.tx,
     account |-> IF r = 2 THEN Addr(k) ELSE CurrentFirstAccount(k, first),
     chain |-> FirstChain(k)]

\* A caller takes getWalletAdapter() and asks it to sign `input`.
SignRequest(input) ==
    /\ rev # 1
    /\ signer' = getWalletAdapter(activeWalletAdapter, present)
    /\ IF signer' = NULL
       THEN /\ signResult' = "noadapter"
            /\ forwarded' = <<>>
       ELSE IF signer' \in {"wrapper(nav)", "wrapper(evt)"}
       THEN IF SignSupported(canSign)
            THEN /\ signResult' = "forwarded"
                 /\ forwarded' = <<StandardRequest(rev, Wrapped(signer'), input,
                                                   firstAccount)>>
            ELSE /\ signResult' = "unsupported"
                 /\ forwarded' = <<>>
       ELSE /\ signResult' = "forwarded"
            /\ forwarded' = <<input>>
    /\ UNCHANGED <<rev, present, wpc, checks, found, step, callee, connResult,
                   activeWalletAdapter, disconnectResult, presentAtLastCheck,
                   presentAtWaitEnd, denied, adapterAtStart, everConnected,
                   detected, tried, granted, askedPermission, walletAddress,
                   firstAccount, walletDisconnect, canSign, disconnecting, alerted>>
    /\ UNCHANGED nonWalletVars

AppWalletNext ==
    \/ handleConnectWallet
    \/ handleConnectWalletAlert
    \/ \E o \in {"grant", "deny", "throw"} : ConnectReturn(o)
    \/ handleDisconnectWallet
    \/ \E o \in {"ok", "throw"} : DisconnectReturns(o)

\* The service as signing code uses it: connects, disconnects, account
\* changes in the wallet, sign requests.
AdapterNext ==
    \/ ConnectStart
    \/ PollWake
    \/ \E o \in {"grant", "deny", "throw"} : ConnectReturn(o)
    \/ \E o \in {"ok", "throw"} : disconnectSuiWallet(o)
    \/ AccountsChange
    \/ \E input \in SignInputs : SignRequest(input)

(***************************************************************************)
(* Walrus upload                                                           *)
(***************************************************************************)

\* Publisher endpoints of a network (5 for TESTNET, 1 for MAINNET), scaled.
MaxPublishers == 3

\* The upload functions: uploadSessionViaWalrusSDK of services/walrusUpload.ts
\* ("multi"), the single-endpoint revision of unnamed/part_002 ("single"),
\* and uploadToWalrus of services/walrusService.ts ("store").
UploadFns == {"multi", "single", "store"}

\* A JSON body of a 2xx response.  "" stands for a field that is absent or
\* empty; nc / bo / ac tell whether the newlyCreated, newlyCreated.blobObject
\* and alreadyCertified objects exist.
Body(nc, bo, boId, ncId, ac, acId, topId) ==
    [nc |-> nc, bo |-> bo, boId |-> boId, ncId |-> ncId,
     ac |-> ac, acId |-> acId, topId |-> topId]

Bodies ==
    { Body(TRUE,  TRUE,  "b1", "",   FALSE, "",   ""),     \* newly created
      Body(FALSE, FALSE, "",   "",   TRUE,  "b2", ""),     \* already certified
      Body(TRUE,  FALSE, "",   "b3", FALSE, "",   ""),     \* newlyCreated.blobId
      Body(FALSE, FALSE, "",   "",   FALSE, "",   "b4"),   \* top-level blobId
      Body(FALSE, FALSE, "",   "",   FALSE, "",   ""),     \* {}
      Body(TRUE,  TRUE,  "",   "",   FALSE, "",   ""),     \* blobObject without id
      Body(FALSE, FALSE, "",   "",   TRUE,  "",   ""),     \* alreadyCertified without id
      Body(TRUE,  FALSE, "",   "",   FALSE, "",   "") }    \* newlyCreated: {}

\* What one request can come back with: a network error (fetch rejects), a
\* non-2xx status, a 2xx status whose body is not JSON, a 2xx status with a body.
Responses ==
    {[kind |-> k, body |-> NONE] : k \in {"net", "http", "badjson"}}
        \cup {[kind |-> "ok", body |-> b] : b \in Bodies}

Return(id)  == [t |-> "return", id |-> id, e |-> NONE]
Throw(e)    == [t |-> "throw", id |-> NONE, e |-> e]
Continue(e) == [t |-> "continue", id |-> NONE, e |-> e]

\* result.newlyCreated?.blobObject?.blobId || result.newlyCreated?.blobId ||
\* result.alreadyCertified?.blobId || result.blobId
ExtractMulti(b) ==
    IF b.nc /\ b.bo /\ b.boId # "" THEN b.boId
    ELSE IF b.nc /\ b.ncId # "" THEN b.ncId
    ELSE IF b.ac /\ b.acId # "" THEN b.acId
    ELSE b.topId

\* The try body of one loop iteration of uploadSessionViaWalrusSDK.
TryMulti(resp) ==
    CASE resp.kind = "net"     -> Throw("net")
      [] resp.kind = "http"    -> Continue("http")
      [] resp.kind = "badjson" -> Throw("json")
      [] resp.kind = "ok"      ->
            IF ExtractMulti(resp.body) = "" THEN Throw("noid")
            ELSE Return(ExtractMulti(resp.body))

\* The try body of the single-endpoint revision.
TrySingle(resp) ==
    CASE resp.kind = "net"     -> Throw("net")
      [] resp.kind = "http"    -> Throw("http")
      [] resp.kind = "badjson" -> Throw("json")
      [] resp.kind = "ok"      ->
            LET b == resp.body
                id == IF b.nc THEN b.boId ELSE IF b.ac THEN b.acId ELSE ""
            IN IF b.nc /\ ~b.bo THEN Throw("type")
               ELSE IF id = "" THEN Throw("noid")
               ELSE Return(id)

\* The try body of uploadToWalrus.
TryStore(resp) ==
    CASE resp.kind = "net"     -> Throw("net")
      [] resp.kind = "http"    -> Throw("http")
      [] resp.kind = "badjson" -> Throw("json")
      [] resp.kind = "ok"      ->
            LET b == resp.body
            IN IF b.nc THEN (IF ~b.bo THEN Throw("type") ELSE Return(b.boId))
               ELSE IF b.ac THEN Return(b.acId)
               ELSE Throw("format")

Try(f, resp) ==
    CASE f = "multi"  -> TryMulti(resp)
      [] f = "single" -> TrySingle(resp)
      [] f = "store"  -> TryStore(resp)

\* The catch clause of the loop rethrows only at the last publisher.
RethrowsAtAny(i, n) == TRUE
Rethrows(i, n) == i = n

UOk(id)      == [kind |-> "ok", blobId |-> id, msg |-> NONE, last |-> NONE, url |-> <<>>]
UErr(m, e)   == [kind |-> "err", blobId |-> NONE, msg |-> m, last |-> e, url |-> <<>>]
UNoResult    == [kind |-> NONE, blobId |-> NONE, msg |-> NONE, last |-> NONE, url |-> <<>>]

Networks == {"TESTNET", "MAINNET"}

\* WALRUS_CONFIG[network].PUBLISHER / .AGGREGATOR
PublisherOf(net) ==
    IF net = "TESTNET" THEN "https://publisher.walrus-testnet.walrus.space"
    ELSE "https://publisher.walrus.site"

AggregatorOf(net) ==
    IF net = "TESTNET" THEN "https://aggregator.walrus-testnet.walrus.space"
    ELSE "https://aggregator.walrus.site"

\* `${WALRUS_CONFIG[network].AGGREGATOR}/v1/${blobId}`
UrlOnPublisher(net, id) == <<PublisherOf(net), "/v1/", id>>
Url(net, id) == <<AggregatorOf(net), "/v1/", id>>

\* What uploadToWalrus returns: { blobId, url }
StoreOk(net, id) == [UOk(id) EXCEPT !.url = Url(net, id)]

UploadIdle ==
    /\ ufn = "multi"
    /\ network = "TESTNET"
    /\ nPub = 1
    /\ upc = "idle"
    /\ ui = 0
    /\ replies = <<[kind |-> "net", body |-> NONE]>>
    /\ uresult = UNoResult
    /\ outstanding = {}

UploadInit ==
    /\ ufn \in UploadFns
    /\ network \in Networks
    /\ nPub \in 1..MaxPublishers
    /\ ufn # "multi" => nPub = 1
    /\ upc = "idle"
    /\ ui = 0
    /\ replies \in [1..nPub -> Responses]
    /\ uresult = UNoResult
    /\ outstanding = {}

\* The loop awaits the attempt against publisher `settled` before it fetches
\* from publisher `next`.
ContactWithoutAwait(out, settled, next) == out \cup {next}
Contact(out, settled, next) == (out \ {settled}) \cup {next}

\* The upload is called: the request to the first endpoint goes out.
UploadStart ==
    /\ upc = "idle"
    /\ upc' = "fetch"
    /\ ui' = 1
    /\ outstanding' = {1}
    /\ UNCHANGED <<ufn, network, nPub, replies, uresult>>
    /\ UNCHANGED nonUploadVars

\* The outstanding request of uploadSessionViaWalrusSDK settles.
MultiResponse ==
    /\ upc = "fetch"
    /\ ufn = "multi"
    /\ LET o == TryMulti(replies[ui])
       IN CASE o.t = "return" ->
                  /\ upc' = "done"
                  /\ uresult' = UOk(o.id)
                  /\ ui' = ui
            [] o.t = "throw" /\ Rethrows(ui, nPub) ->
                  /\ upc' = "done"
                  /\ uresult' = UErr("aggregate", o.e)
                  /\ ui' = ui
            [] o.t = "continue" /\ ui = nPub ->
                  /\ upc' = "done"
                  /\ uresult' = UErr("generic", NONE)
                  /\ ui' = ui
            [] OTHER ->
                  /\ upc' = "fetch"
                  /\ uresult' = uresult
                  /\ ui' = ui + 1
    /\ outstanding' = IF upc' = "done" THEN outstanding \ {ui}
                      ELSE Contact(outstanding, ui, ui + 1)
    /\ UNCHANGED <<ufn, network, nPub, replies>>
    /\ UNCHANGED nonUploadVars

\* The request of a single-endpoint upload settles: the catch clause
\* rethrows whatever the try body threw.
SingleResponse ==
    /\ upc = "fetch"
    /\ ufn # "multi"
    /\ LET o == Try(ufn, replies[ui])
       IN uresult' = IF o.t # "return" THEN UErr(o.e, o.e)
                     ELSE IF ufn = "store" THEN StoreOk(network, o.id)
                     ELSE UOk(o.id)
    /\ upc' = "done"
    /\ outstanding' = outstanding \ {ui}
    /\ UNCHANGED <<ufn, network, nPub, ui, replies>>
    /\ UNCHANGED nonUploadVars

UploadNext ==
    \/ UploadStart
    \/ MultiResponse
    \/ SingleResponse

(***************************************************************************)
(* Texts: sequences of characters; NL is the line break.                   *)
(***************************************************************************)

NL == "\n"

\* The lines of a text that are not empty: the maximal runs without a line break.
NonBlankLines(t) ==
    Cardinality({i \in 1..Len(t) : t[i] # NL /\ (i = 1 \/ t[i - 1] = NL)})

(***************************************************************************)
(* The export script of App.processUpload                                  *)
(***************************************************************************)

\* Points of a transcript handed to the export.
MaxPoints == 2

\* Utterances: absent (NONE), empty, one line, two lines.
Utterances == {NONE, <<>>, <<"a">>, <<"a", NL, "b">>}

Points == [userMessage : Utterances, plantResponse : Utterances]

\* The fixed header; it ends with an empty line.
ScriptHeader == <<"PLANTBUDDY SESSION TRANSCRIPT", NL, "-----", NL, NL>>

Placeholder == <<"[No verbal interaction recorded]">>

\* JavaScript truthiness of an optional string.
Truthy(t) == t # NONE /\ t # <<>>

\* The callback of currentSessionData.map: a line, or null (NONE).
Entry(d) ==
    IF Truthy(d.userMessage) THEN <<"[time] USER: ">> \o d.userMessage
    ELSE IF Truthy(d.plantResponse) THEN <<"[time] PLANT: ">> \o d.plantResponse
    ELSE NONE

\* .filter(Boolean): null entries are dropped.
KeepEntryAll(e) == TRUE
KeepEntry(e) == e # NONE

\* Array.prototype.join: null elements are rendered as the empty string.
RECURSIVE Join(_, _)
Join(es, sep) ==
    IF es = <<>> THEN <<>>
    ELSE LET h == IF Head(es) = NONE THEN <<>> ELSE Head(es)
         IN IF Len(es) = 1 THEN h ELSE h \o sep \o Join(Tail(es), sep)

\* currentSessionData.map(...).filter(Boolean).join('\n\n')
ScriptBody(data) ==
    LET mapped == [i \in 1..Len(data) |-> Entry(data[i])]
    IN Join(SelectSeq(mapped, KeepEntry), <<NL, NL>>)

\* scriptHeader + (scriptBody || "[No verbal interaction recorded]")
FullScript(data) ==
    ScriptHeader \o (IF ScriptBody(data) = <<>> THEN Placeholder ELSE ScriptBody(data))

\* processUpload runs over a behaviour.
MaxRuns == 2

\* The awaits of processUpload: analyzeDatasetValue, the encryption delay,
\* uploadToWalrus.
Awaits == {"analyze", "encrypt", "upload"}

NoRuns == [a \in Awaits |-> 0]

\* A run moves from one await to the next (or ends: to = NONE).
MoveRun(rs, from, to) ==
    [a \in Awaits |-> IF a = from THEN rs[a] - 1
                      ELSE IF a = to THEN rs[a] + 1
                      ELSE rs[a]]

\* MOCK_BLOBS
MockListings == <<"mock">>

\* What the analysis request of analyzeDatasetValue comes to: no API key (no
\* request is made), a rejected request, an empty text, a text JSON.parse
\* rejects, a JSON text.
AnalysisResponses == {"nokey", "reject", "empty", "unparsable", "json"}

NoAnalysis == [title |-> NONE, priceSuggestion |-> 0]

\* The metadata of the catch clause, and that of a parsed response.
Fallback == [title |-> "Raw Bio-Data Upload", priceSuggestion |-> 50]
Parsed == [title |-> "title", priceSuggestion |-> 100]

\* analyzeDatasetValue: the whole body is inside try, the catch clause
\* returns the fallback.
analyzeDatasetValueRethrows(response) ==
    IF response = "json" THEN [kind |-> "resolved", value |-> Parsed]
    ELSE [kind |-> "rejected", value |-> NoAnalysis]
analyzeDatasetValue(response) ==
    IF response = "json" THEN [kind |-> "resolved", value |-> Parsed]
    ELSE [kind |-> "resolved", value |-> Fallback]

\* The wizard before any session was saved.
WizardClosed ==
    /\ isModalOpen = FALSE
    /\ uploadStep = "IDLE"
    /\ mintedBlob = NULL
    /\ marketplaceListings = MockListings
    /\ runs = NoRuns
    /\ runsStarted = 0
    /\ failures = 0
    /\ succeeded = 0
    /\ savedAt = 0
    /\ analysis = [response |-> NONE, value |-> NoAnalysis]

\* The wizard as handleSaveSession leaves it.
WizardOpened ==
    /\ isModalOpen = TRUE
    /\ uploadStep = "IDLE"
    /\ mintedBlob = NULL
    /\ marketplaceListings = MockListings
    /\ runs = NoRuns
    /\ runsStarted = 0
    /\ failures = 0
    /\ succeeded = 0
    /\ savedAt = 0
    /\ analysis = [response |-> NONE, value |-> NoAnalysis]

ScriptIdle ==
    /\ currentSessionData = <<>>
    /\ blobScript = NONE
    /\ WizardClosed

ScriptInit ==
    /\ currentSessionData \in UNION {[1..n -> Points] : n \in 1..MaxPoints}
    /\ blobScript = NONE
    /\ WizardOpened

\* processUpload up to its first await: the step becomes ANALYZING, the
\* script is built and stored (setBlobScript), the analysis is requested.
BuildScript ==
    /\ isModalOpen
    /\ uploadStep = "IDLE"
    /\ runsStarted < MaxRuns
    /\ uploadStep' = "ANALYZING"
    /\ blobScript' = FullScript(currentSessionData)
    /\ runs' = MoveRun(runs, NONE, "analyze")
    /\ runsStarted' = runsStarted + 1
    /\ UNCHANGED <<currentSessionData, isModalOpen, mintedBlob, marketplaceListings,
                   failures, succeeded, savedAt, analysis>>
    /\ UNCHANGED nonScriptVars

ScriptNext == BuildScript

\* Transcripts DeviceMonitor hands over (its export button needs a point).
SavedTranscripts ==
    { <<[userMessage |-> <<"a">>, plantResponse |-> NONE]>>,
      <<[userMessage |-> <<"a">>, plantResponse |-> NONE],
        [userMessage |-> NONE, plantResponse |-> <<"a">>]>> }

handleSaveSession(data) ==
    /\ ~isModalOpen
    /\ currentSessionData' = data
    /\ isModalOpen' = TRUE
    /\ uploadStep' = "IDLE"
    /\ mintedBlob' = NULL
    /\ blobScript' = NONE
    /\ savedAt' = succeeded
    /\ UNCHANGED <<marketplaceListings, runs, runsStarted, failures, succeeded, analysis>>
    /\ UNCHANGED nonScriptVars

\* The dialog's onClose.
CloseModal ==
    /\ isModalOpen
    /\ isModalOpen' = FALSE
    /\ UNCHANGED <<currentSessionData, blobScript, uploadStep, mintedBlob,
                   marketplaceListings, runs, runsStarted, failures, succeeded, savedAt,
                   analysis>>
    /\ UNCHANGED nonScriptVars

\* The catch clause of processUpload: setUploadStep('IDLE').
StepAfterFailureStays(current) == current
StepAfterFailure(current) == "IDLE"

\* analyzeDatasetValue settles; processUpload goes on to the encryption
\* delay, or to its catch clause had the call rejected.
AnalysisReturns(response) ==
    /\ runs["analyze"] > 0
    /\ LET a == analyzeDatasetValue(response)
       IN /\ analysis' = [response |-> response, value |-> a.value]
          /\ IF a.kind = "rejected"
             THEN /\ runs' = MoveRun(runs, "analyze", NONE)
                  /\ uploadStep' = StepAfterFailure(uploadStep)
                  /\ failures' = failures + 1
             ELSE /\ runs' = MoveRun(runs, "analyze", "encrypt")
                  /\ uploadStep' = "ENCRYPTING"
                  /\ failures' = failures
    /\ UNCHANGED <<currentSessionData, blobScript, isModalOpen, mintedBlob,
                   marketplaceListings, runsStarted, succeeded, savedAt>>
    /\ UNCHANGED nonScriptVars

\* The delay ends: uploadToWalrus is called.
EncryptionDone ==
    /\ runs["encrypt"] > 0
    /\ runs' = MoveRun(runs, "encrypt", "upload")
    /\ uploadStep' = "UPLOADING"
    /\ UNCHANGED <<currentSessionData, blobScript, isModalOpen, mintedBlob,
                   marketplaceListings, runsStarted, failures, succeeded, savedAt,
                   analysis>>
    /\ UNCHANGED nonScriptVars

\* uploadToWalrus settles: with an identifier the record is minted and
\* listed, a rejection reaches the catch clause.
UploadSettles(outcome) ==
    /\ runs["upload"] > 0
    /\ runs' = MoveRun(runs, "upload", NONE)
    /\ IF outcome = "reject"
       THEN /\ uploadStep' = StepAfterFailure(uploadStep)
            /\ failures' = failures + 1
            /\ UNCHANGED <<mintedBlob, marketplaceListings, succeeded>>
       ELSE /\ mintedBlob' = outcome
            /\ marketplaceListings' = <<outcome>> \o marketplaceListings
            /\ uploadStep' = "SUCCESS"
            /\ succeeded' = succeeded + 1
            /\ UNCHANGED failures
    /\ UNCHANGED <<currentSessionData, blobScript, isModalOpen, runsStarted, savedAt,
                   analysis>>
    /\ UNCHANGED nonScriptVars

WizardInit ==
    /\ currentSessionData = <<>>
    /\ blobScript = NONE
    /\ WizardClosed

WizardNext ==
    \/ \E data \in SavedTranscripts : handleSaveSession(data)
    \/ CloseModal
    \/ BuildScript
    \/ \E response \in AnalysisResponses : AnalysisReturns(response)
    \/ EncryptionDone
    \/ \E outcome \in {"reject", "b1", "undefined"} : UploadSettles(outcome)

(***************************************************************************)
(* The chat contents of generatePlantResponse                              *)
(***************************************************************************)

\* Turns of a history.
MaxHistory == 4

Roles == {"user", "model"}

Messages == [role : Roles, text : {<<"a">>, <<"b">>}]

\* `${physicalContext} ${userMessage}`
Prompt == <<" ", "p">>

\* msg.role === 'user' ? 'user' : 'model'
RoleOf(msg) == IF msg.role = "user" THEN "user" ELSE "model"

\* text += `\n${msg.text}`
MergeTextNoBreak(a, b) == a \o b
MergeText(a, b) == a \o <<NL>> \o b

\* One iteration of the loop over history: merge into the last turn when it
\* has the same role, push a new turn otherwise.
AddTurnPush(c, role, text) == Append(c, [role |-> role, text |-> text])
AddTurn(c, role, text) ==
    IF Len(c) > 0 /\ c[Len(c)].role = role
    THEN [c EXCEPT ![Len(c)].text = MergeText(c[Len(c)].text, text)]
    ELSE Append(c, [role |-> role, text |-> text])

ChatIdle ==
    /\ history = <<>>
    /\ contents = <<>>
    /\ gpc = "sent"
    /\ consumed = 0

ChatInit ==
    /\ history \in UNION {[1..n -> Messages] : n \in 0..MaxHistory}
    /\ contents = <<>>
    /\ gpc = IF history = <<>> THEN "merged" ELSE "loop"
    /\ consumed = 0

\* for (const msg of history) { ... }: one message.
MergeStep ==
    /\ gpc = "loop"
    /\ consumed' = consumed + 1
    /\ contents' = AddTurn(contents, RoleOf(history[consumed + 1]),
                           history[consumed + 1].text)
    /\ gpc' = IF consumed + 1 = Len(history) THEN "merged" ELSE "loop"
    /\ UNCHANGED history
    /\ UNCHANGED nonChatVars

\* The current prompt is appended as a user turn (merged into a trailing user
\* turn) and the request is sent.
AppendPrompt ==
    /\ gpc = "merged"
    /\ contents' = AddTurn(contents, "user", Prompt)
    /\ gpc' = "sent"
    /\ UNCHANGED <<history, consumed>>
    /\ UNCHANGED nonChatVars

ChatNext ==
    \/ MergeStep
    \/ AppendPrompt

(***************************************************************************)
(* The session of DeviceMonitor                                            *)
(***************************************************************************)

\* Clock readings.
MaxTime == 2

\* Interactions and pending timers over a run.
MaxInteractions == 2

\* setSessionData(prev => [...prev, point])
PrependPoint(sd, p) == <<p>> \o sd
AppendPoint(sd, p) == Append(sd, p)

Point(kind) == [timestamp |-> now, kind |-> kind]

\* if (isRecordingRef.current): a point is recorded only during a session.
RecordsAlways(recording) == TRUE
Records(recording) == recording

Budget == started + sysTimers + touchTimers

SessionIdle ==
    /\ isRecording = FALSE
    /\ isProcessing = FALSE
    /\ isTouching = FALSE
    /\ sessionData = <<>>
    /\ messages = <<>>
    /\ now = 0
    /\ inflight = 0
    /\ sysTimers = 0
    /\ touchTimers = 0
    /\ listening = NONE
    /\ started = 0
    /\ staleTimers = 0
    /\ touchStarts = 0

SessionInit == SessionIdle

\* processInteraction up to its await, entered from a closure that saw
\* isProcessing as `saw`.
processInteraction(type, saw) ==
    IF saw /\ type # "SYSTEM"
    THEN UNCHANGED <<isProcessing, messages, sessionData, inflight, started>>
    ELSE /\ started < MaxInteractions
         /\ started' = started + 1
         /\ isProcessing' = TRUE
         /\ inflight' = inflight + 1
         /\ messages' = IF type = "USER" THEN Append(messages, "user") ELSE messages
         /\ sessionData' = IF type = "USER" /\ Records(isRecording)
                           THEN AppendPoint(sessionData, Point("user"))
                           ELSE sessionData

\* The clock advances.
Tick ==
    /\ now < MaxTime
    /\ now' = now + 1
    /\ UNCHANGED <<isRecording, isProcessing, isTouching, sessionData, messages,
                   inflight, sysTimers, touchTimers, listening, started>>
    /\ UNCHANGED <<staleTimers, touchStarts>>
    /\ UNCHANGED nonSessionVars

toggleSession ==
    /\ IF ~isRecording
       THEN /\ Budget < MaxInteractions
            /\ isRecording' = TRUE
            /\ messages' = Append(messages, "user")
            /\ sysTimers' = sysTimers + 1
       ELSE /\ isRecording' = FALSE
            /\ UNCHANGED <<messages, sysTimers>>
    /\ UNCHANGED <<isProcessing, isTouching, sessionData, now, inflight,
                   touchTimers, listening, started>>
    /\ UNCHANGED <<staleTimers, touchStarts>>
    /\ UNCHANGED nonSessionVars

\* The timer of toggleSession fires: a SYSTEM interaction.
SystemTimerFires ==
    /\ sysTimers > 0
    /\ sysTimers' = sysTimers - 1
    /\ processInteraction("SYSTEM", FALSE)
    /\ UNCHANGED <<isRecording, isTouching, now, touchTimers, listening>>
    /\ UNCHANGED <<staleTimers, touchStarts>>
    /\ UNCHANGED nonSessionVars

handleTouchStart ==
    /\ ~isTouching
    /\ isTouching' = TRUE
    /\ IF isRecording /\ ~isProcessing
       THEN /\ Budget < MaxInteractions
            /\ touchTimers' = touchTimers + 1
       ELSE UNCHANGED touchTimers
    /\ touchStarts' = 0
    /\ UNCHANGED <<isRecording, isProcessing, sessionData, messages, now,
                   inflight, sysTimers, listening, started, staleTimers>>
    /\ UNCHANGED nonSessionVars

\* The timers still pending are those of touches that have ended.
handleTouchEnd ==
    /\ isTouching
    /\ isTouching' = FALSE
    /\ staleTimers' = touchTimers
    /\ UNCHANGED <<isRecording, isProcessing, sessionData, messages, now,
                   inflight, sysTimers, touchTimers, listening, started, touchStarts>>
    /\ UNCHANGED nonSessionVars

\* What the timer's callback tests: if (isTouchingRef.current).
TimerStarts(touching, stale) == touching

\* The oldest timer of handleTouchStart fires (they all wait 500 ms); its
\* closure saw isProcessing false.
TouchTimerFires ==
    /\ touchTimers > 0
    /\ touchTimers' = touchTimers - 1
    /\ staleTimers' = IF staleTimers > 0 THEN staleTimers - 1 ELSE 0
    /\ IF TimerStarts(isTouching, staleTimers)
       THEN /\ processInteraction("TOUCH", FALSE)
            /\ touchStarts' = touchStarts + 1
       ELSE UNCHANGED <<isProcessing, messages, sessionData, inflight, started, touchStarts>>
    /\ UNCHANGED <<isRecording, isTouching, now, sysTimers, listening>>
    /\ UNCHANGED nonSessionVars

\* The input and the send button are disabled outside a session.
handleSendMessage ==
    /\ isRecording
    /\ ~isProcessing
    /\ processInteraction("USER", isProcessing)
    /\ UNCHANGED <<isRecording, isTouching, now, sysTimers, touchTimers, listening>>
    /\ UNCHANGED <<staleTimers, touchStarts>>
    /\ UNCHANGED nonSessionVars

\* toggleListening installs onresult, a closure over the current render.
\* The microphone button is disabled outside a session.
toggleListening ==
    /\ isRecording
    /\ listening = NONE
    /\ listening' = IF isProcessing THEN "busy" ELSE "idle"
    /\ UNCHANGED <<isRecording, isProcessing, isTouching, sessionData, messages, now,
                   inflight, sysTimers, touchTimers, started>>
    /\ UNCHANGED <<staleTimers, touchStarts>>
    /\ UNCHANGED nonSessionVars

\* The recognizer delivers its transcript.
VoiceResult ==
    /\ listening # NONE
    /\ listening' = NONE
    /\ processInteraction("USER", listening = "busy")
    /\ UNCHANGED <<isRecording, isTouching, now, sysTimers, touchTimers>>
    /\ UNCHANGED <<staleTimers, touchStarts>>
    /\ UNCHANGED nonSessionVars

\* generatePlantResponse resolves and processInteraction runs to its end;
\* "throw" is speak() failing before the transcript point is added.
ReplyArrives(outcome) ==
    /\ inflight > 0
    /\ inflight' = inflight - 1
    /\ messages' = Append(messages, "model")
    /\ sessionData' = IF outcome = "ok" /\ Records(isRecording)
                      THEN AppendPoint(sessionData, Point("plant"))
                      ELSE sessionData
    /\ isProcessing' = FALSE
    /\ UNCHANGED <<isRecording, isTouching, now, sysTimers, touchTimers,
                   listening, started>>
    /\ UNCHANGED <<staleTimers, touchStarts>>
    /\ UNCHANGED nonSessionVars

SessionNext ==
    \/ Tick
    \/ toggleSession
    \/ SystemTimerFires
    \/ handleTouchStart
    \/ handleTouchEnd
    \/ TouchTimerFires
    \/ handleSendMessage
    \/ toggleListening
    \/ VoiceResult
    \/ \E outcome \in {"ok", "throw"} : ReplyArrives(outcome)

(***************************************************************************)
(* The retry loop of generatePlantResponse                                 *)
(***************************************************************************)

MAX_RETRIES == 2

\* Words an error message is tested for (lower-cased by the second revision).
ErrorWords == {"api key", "invalid", "400", "401", "403", "rate limit", "429",
               "network", "timeout", "quota", "fetch"}

\* Words of one error message.
MaxWords == 2

\* An error message: the words it contains.
ErrorMessages == {m \in SUBSET ErrorWords : Cardinality(m) <= MaxWords}

includes(m, w) == w \in m

\* errorStr.includes("api key") || ... "invalid" ... "401" ... "403"
AuthLooking(m) ==
    includes(m, "api key") \/ includes(m, "invalid") \/ includes(m, "401") \/ includes(m, "403")

\* errorStr.includes("rate limit") || ... "429" ... "network" ... "timeout"
TransientLooking(m) ==
    includes(m, "rate limit") \/ includes(m, "429") \/ includes(m, "network")
        \/ includes(m, "timeout")

\* The catch clause of the loop: retry (continue) or leave the loop (break).
\* The first revision makes a single attempt.
RetriesAfterIgnoringAuth(r, a, m) == r = 2 /\ a < MAX_RETRIES /\ TransientLooking(m)
RetriesAfterAnyError(r, a, m) == r = 2 /\ a < MAX_RETRIES /\ ~AuthLooking(m)
RetriesAfter(r, a, m) ==
    /\ r = 2
    /\ ~AuthLooking(m)
    /\ a < MAX_RETRIES /\ TransientLooking(m)

\* The text returned for the final error.
ErrorText(r, m) ==
    IF r = 1
    THEN IF includes(m, "400") \/ includes(m, "api key") THEN "(System: Invalid API Key)"
         ELSE "(System Voice: Connection error)"
    ELSE IF AuthLooking(m) THEN "(System: Invalid or missing API Key)"
    ELSE IF includes(m, "quota") \/ includes(m, "rate limit") \/ includes(m, "429")
         THEN "(System: API quota exceeded)"
    ELSE IF includes(m, "network") \/ includes(m, "fetch") \/ includes(m, "timeout")
         THEN "(System: Network error)"
    ELSE "(System: message)"

\* How an async function settles.
Rejected(m) == [kind |-> "rejected", text |-> NONE]
Returned(t) == [kind |-> "returned", text |-> t]
Pending == [kind |-> NONE, text |-> NONE]

\* What generatePlantResponse does with the error it gives up on.
SettleFailure(r, m) == Returned(ErrorText(r, m))

CompletionIdle ==
    /\ grev = 2
    /\ hasKey = TRUE
    /\ cpc = "idle"
    /\ attempt = 0
    /\ requests = 0
    /\ lastError = <<>>
    /\ gresult = Pending

CompletionInit ==
    /\ grev \in {1, 2}
    /\ hasKey \in BOOLEAN
    /\ cpc = "idle"
    /\ attempt = 0
    /\ requests = 0
    /\ lastError = <<>>
    /\ gresult = Pending

\* generatePlantResponse is called: without a key it returns at once,
\* otherwise the first generateContent request goes out.
CallStart ==
    /\ cpc = "idle"
    /\ IF hasKey
       THEN /\ cpc' = "request"
            /\ requests' = 1
            /\ gresult' = Pending
       ELSE /\ cpc' = "done"
            /\ requests' = 0
            /\ gresult' = Returned("(System: API Key missing)")
    /\ UNCHANGED <<grev, hasKey, attempt, lastError>>
    /\ UNCHANGED nonCompletionVars

\* generateContent resolves; an empty text is replaced.
AttemptSucceeds(text) ==
    /\ cpc = "request"
    /\ cpc' = "done"
    /\ gresult' = Returned(IF text = "" THEN "I'm listening..." ELSE text)
    /\ UNCHANGED <<grev, hasKey, attempt, requests, lastError>>
    /\ UNCHANGED nonCompletionVars

\* generateContent rejects with message m: the catch clause.
AttemptFails(m) ==
    /\ cpc = "request"
    /\ lastError' = <<m>>
    /\ IF RetriesAfter(grev, attempt, m)
       THEN /\ cpc' = "backoff"
            /\ gresult' = gresult
       ELSE /\ cpc' = "done"
            /\ gresult' = SettleFailure(grev, m)
    /\ UNCHANGED <<grev, hasKey, attempt, requests>>
    /\ UNCHANGED nonCompletionVars

\* The backoff delay ends: continue, the next attempt's request goes out.
BackoffEnds ==
    /\ cpc = "backoff"
    /\ attempt' = attempt + 1
    /\ requests' = requests + 1
    /\ cpc' = "request"
    /\ UNCHANGED <<grev, hasKey, lastError, gresult>>
    /\ UNCHANGED nonCompletionVars

CompletionNext ==
    \/ CallStart
    \/ \E text \in {"", "hello"} : AttemptSucceeds(text)
    \/ \E m \in ErrorMessages : AttemptFails(m)
    \/ BackoffEnds

(***************************************************************************)
(* Serial input of DeviceMonitor                                           *)
(***************************************************************************)

\* Reads of the serial port over a behaviour.
MaxChunks == 3

\* Lines the raw monitor keeps.
RawLimit == 8

\* Lines the simulation writes to the raw monitor over a behaviour.
MaxSimLines == 3

\* Characters of the class [\-0-9.] and the digits among them.
NumChars == {"1", "2", "-", "."}
Digits == {"1", "2"}

Whitespace == {" ", "\r"}

NaN == <<"NaN">>

\* The length of the run of class characters that starts at position i.
RECURSIVE RunLen(_, _)
RunLen(line, i) ==
    IF i > Len(line) \/ line[i] \notin NumChars THEN 0
    ELSE 1 + RunLen(line, i + 1)

\* /TOP:([\-0-9.]+),VAL:([\-0-9.]+),INT:([\-0-9.]+)/ matched at position i:
\* the three groups, or <<>> when it does not match there.
GroupsAt(line, i) ==
    LET a == RunLen(line, i + 1)
        j == i + 1 + a
        b == RunLen(line, j + 1)
        k == j + 1 + b
        c == RunLen(line, k + 1)
    IN IF /\ i <= Len(line) /\ line[i] = "TOP:" /\ a >= 1
          /\ j <= Len(line) /\ line[j] = ",VAL:" /\ b >= 1
          /\ k <= Len(line) /\ line[k] = ",INT:" /\ c >= 1
       THEN <<SubSeq(line, i + 1, i + a), SubSeq(line, j + 1, j + b),
              SubSeq(line, k + 1, k + c)>>
       ELSE <<>>

\* line.match(...): the groups of the leftmost match, <<>> for null.
Match(line) ==
    LET at == {i \in 1..Len(line) : GroupsAt(line, i) # <<>>}
    IN IF at = {} THEN <<>>
       ELSE GroupsAt(line, CHOOSE i \in at : \A i2 \in at : i <= i2)

RECURSIVE DigitPrefix(_)
DigitPrefix(t) ==
    IF t = <<>> \/ Head(t) \notin Digits THEN <<>>
    ELSE <<Head(t)>> \o DigitPrefix(Tail(t))

\* parseFloat: the longest prefix that is a number, NaN when there is none.
parseFloat(t) ==
    LET neg  == t # <<>> /\ Head(t) = "-"
        rest == IF neg THEN Tail(t) ELSE t
        ip   == DigitPrefix(rest)
        aft  == SubSeq(rest, Len(ip) + 1, Len(rest))
        fp   == IF aft # <<>> /\ Head(aft) = "." THEN DigitPrefix(Tail(aft)) ELSE <<>>
    IN IF ip = <<>> /\ fp = <<>> THEN NaN
       ELSE (IF neg THEN <<"-">> ELSE <<>>) \o ip
                \o (IF fp = <<>> THEN <<>> ELSE <<".">> \o fp)

Reading(top, int) == [topPoint |-> top, interpolated |-> int, raw |-> int]

\* if (match) { ... }: the sensor buffer after a line.
StoreOrClear(buf, line) ==
    IF Match(line) = <<>> THEN Reading(NaN, NaN)
    ELSE Reading(parseFloat(Match(line)[1]), parseFloat(Match(line)[3]))
Store(buf, line) ==
    IF Match(line) = <<>> THEN buf
    ELSE Reading(parseFloat(Match(line)[1]), parseFloat(Match(line)[3]))

\* n.length > 8 ? n.slice(n.length - 8) : n
LastLinesOldest(n) == IF Len(n) > RawLimit THEN SubSeq(n, 1, RawLimit) ELSE n
LastLines(n) ==
    IF Len(n) > RawLimit THEN SubSeq(n, Len(n) - RawLimit + 1, Len(n)) ELSE n

\* String.prototype.trim
RECURSIVE TrimLeft(_)
TrimLeft(t) == IF t # <<>> /\ Head(t) \in Whitespace THEN TrimLeft(Tail(t)) ELSE t

RECURSIVE TrimRight(_)
TrimRight(t) ==
    IF t # <<>> /\ t[Len(t)] \in Whitespace THEN TrimRight(SubSeq(t, 1, Len(t) - 1))
    ELSE t

Trim(t) == TrimRight(TrimLeft(t))

\* String.prototype.split('\n')
RECURSIVE Split(_)
Split(t) ==
    LET nl == {i \in 1..Len(t) : t[i] = NL}
    IN IF nl = {} THEN <<t>>
       ELSE LET k == CHOOSE i \in nl : \A i2 \in nl : i <= i2
            IN <<SubSeq(t, 1, k - 1)>> \o Split(SubSeq(t, k + 1, Len(t)))

\* The lines of a read that reach parseSerialLine: complete, trimmed, not blank.
Delivered(text) ==
    LET pieces == Split(text)
        whole  == SubSeq(pieces, 1, Len(pieces) - 1)
        trimmed == [i \in 1..Len(whole) |-> Trim(whole[i])]
    IN SelectSeq(trimmed, LAMBDA l : l # <<>>)

\* lines.pop() || ""
Remainder(text) == Split(text)[Len(Split(text))]

\* The sensor buffer after parseSerialLine ran on each line in turn.
RECURSIVE StoreAll(_, _)
StoreAll(buf, lines) ==
    IF lines = <<>> THEN buf ELSE StoreAll(Store(buf, Head(lines)), Tail(lines))

\* The raw monitor after parseSerialLine ran on each line in turn.
RECURSIVE MonitorAll(_, _)
MonitorAll(raw, lines) ==
    IF lines = <<>> THEN raw
    ELSE MonitorAll(LastLines(Append(raw, Head(lines))), Tail(lines))

GoodLine  == <<"TOP:", "1", ",VAL:", "2", ",INT:", "2", ".", "1">>
OtherLine == <<"TOP:", "-", "2", ",VAL:", "1", ",INT:", "1">>
CutLine   == <<"TOP:", "1", ",VAL:", "2">>
Garbage   == <<"x", "x">>
BadNumber == <<"TOP:", "x", ",VAL:", "2", ",INT:", "1">>
NoDigits  == <<"TOP:", "-", ",VAL:", "2", ",INT:", ".">>
Embedded  == <<"x", "TOP:", "2", ",VAL:", "2", ",INT:", "1", "-", "x">>

\* What one read can deliver.
Chunks ==
    { GoodLine \o <<"\r", NL>>,
      OtherLine \o <<NL>>,
      CutLine \o <<NL>>,
      Garbage \o <<"\r", NL>>,
      BadNumber \o <<NL>>,
      NoDigits \o <<NL>>,
      Embedded \o <<NL>>,
      <<"TOP:", "1", ",VAL:">>,
      <<"2", ",INT:", "2", NL>>,
      <<" ", "\r", NL>>,
      Garbage \o <<NL>> \o CutLine \o <<NL>> \o BadNumber \o <<NL>>,
      GoodLine \o <<NL>> \o Garbage \o <<NL>> \o OtherLine \o <<NL>> }

SerialIdle ==
    /\ isConnected = FALSE
    /\ bufferString = <<>>
    /\ hardwareBuffer = Reading(<<"0">>, <<"0">>)
    /\ rawSerialBuffer = <<>>
    /\ rxActive = FALSE
    /\ rxTimers = 0
    /\ chunksRead = 0
    /\ lastLines = <<>>
    /\ isSimulationEnabled = FALSE
    /\ simLines = 0

SerialInit == SerialIdle

\* setIsSimulationEnabled(false) of connectSerial.
SimulationKept(sim) == sim
SimulationAfterConnect(sim) == FALSE

\* connectSerial from the point where the port has opened (the click itself
\* changes nothing before its awaits): the read loop starts.
connectSerial ==
    /\ ~isConnected
    /\ chunksRead < MaxChunks
    /\ isConnected' = TRUE
    /\ isSimulationEnabled' = SimulationAfterConnect(isSimulationEnabled)
    /\ bufferString' = <<>>
    /\ UNCHANGED <<hardwareBuffer, rawSerialBuffer, rxActive, rxTimers, chunksRead,
                   lastLines, simLines>>
    /\ UNCHANGED nonSerialVars

\* reader.read() resolves with data: one iteration of readSerialLoop, with
\* parseSerialLine on every complete line.
ReadChunk(chunk) ==
    /\ isConnected
    /\ chunksRead < MaxChunks
    /\ chunksRead' = chunksRead + 1
    /\ LET text == bufferString \o chunk
           lines == Delivered(text)
       IN /\ bufferString' = Remainder(text)
          /\ lastLines' = lines
          /\ hardwareBuffer' = StoreAll(hardwareBuffer, lines)
          /\ rawSerialBuffer' = MonitorAll(rawSerialBuffer, lines)
          /\ rxActive' = IF lines = <<>> THEN rxActive ELSE TRUE
          /\ rxTimers' = rxTimers + Len(lines)
    /\ UNCHANGED <<isConnected, isSimulationEnabled, simLines>>
    /\ UNCHANGED nonSerialVars

\* reader.read() reports the end of the stream or rejects: the loop ends.
ReadEnds ==
    /\ isConnected
    /\ isConnected' = FALSE
    /\ UNCHANGED <<bufferString, hardwareBuffer, rawSerialBuffer, rxActive, rxTimers,
                   chunksRead, lastLines, isSimulationEnabled, simLines>>
    /\ UNCHANGED nonSerialVars

\* setTimeout(() => setRxActive(false), 100)
RxTimerFires ==
    /\ rxTimers > 0
    /\ rxTimers' = rxTimers - 1
    /\ rxActive' = FALSE
    /\ UNCHANGED <<isConnected, bufferString, hardwareBuffer, rawSerialBuffer,
                   chunksRead, lastLines, isSimulationEnabled, simLines>>
    /\ UNCHANGED nonSerialVars

\* The TEST MODE toggle, rendered while no device is connected.
toggleSimulation ==
    /\ ~isConnected
    /\ isSimulationEnabled' = ~isSimulationEnabled
    /\ UNCHANGED <<isConnected, bufferString, hardwareBuffer, rawSerialBuffer, rxActive,
                   rxTimers, chunksRead, lastLines, simLines>>
    /\ UNCHANGED nonSerialVars

\* What a frame of the simulation writes to the sensor buffer, and the line
\* it writes to the raw monitor: `TOP:${..},VAL:${..},INT:${..}`.
SimReading == Reading(<<"1">>, <<"1", "2">>)
SimLine == <<"TOP:", "1", ",VAL:", "0", ",INT:", "1", ".", "2">>

\* One frame of the simulation effect, which runs while no device is
\* connected and TEST MODE is on; emit is Math.random() > 0.8.
SimulationFrame(emit) ==
    /\ ~isConnected /\ isSimulationEnabled
    /\ hardwareBuffer' = SimReading
    /\ IF emit
       THEN /\ simLines < MaxSimLines
            /\ simLines' = simLines + 1
            /\ rawSerialBuffer' = LastLines(Append(rawSerialBuffer, SimLine))
       ELSE UNCHANGED <<simLines, rawSerialBuffer>>
    /\ UNCHANGED <<isConnected, bufferString, rxActive, rxTimers, chunksRead, lastLines,
                   isSimulationEnabled>>
    /\ UNCHANGED nonSerialVars

SerialNext ==
    \/ connectSerial
    \/ \E chunk \in Chunks : ReadChunk(chunk)
    \/ ReadEnds
    \/ RxTimerFires

(***************************************************************************)
(* On-chain certification                                                  *)
(***************************************************************************)

\* certifyBlobOnChain of services/walrusUpload.ts ("main"), and of the
\* revisions kept as unnamed/part_002 and unnamed/part_003.
CertifyRevisions == {"main", "part_002", "part_003"}

\* A call: the blob identifier ("" when it is missing), whether a certificate
\* (part_002, part_003) was passed, the adapter (null, an object without
\* signAndExecuteTransactionBlock, a signer), and for "main" whether the
\* package and registry identifiers are configured and the dynamic import
\* of the transaction builder succeeds.
CertifyInputs ==
    [blob : {"b1", "b2", ""}, cert : BOOLEAN, adapter : {"null", "nosign", "signer"},
     package : BOOLEAN, registry : BOOLEAN, import : BOOLEAN]

Resolved(status, blob) == [kind |-> "resolved", status |-> status, blobId |-> blob]
RejectedCall == [kind |-> "rejected", status |-> NONE, blobId |-> NONE]
Unsettled == [kind |-> NONE, status |-> NONE, blobId |-> NONE]
Awaiting == [kind |-> "await", status |-> NONE, blobId |-> NONE]

\* The function up to its wallet call: what it settles with, or Awaiting.
BeforeSign(r, in) ==
    CASE r = "part_002" -> Resolved("Stored", in.blob)
      [] r = "main" ->
            IF ~in.package THEN Resolved("Stored (not certified)", in.blob)
            ELSE IF in.adapter # "signer" THEN Resolved("Stored (not certified)", in.blob)
            ELSE IF ~in.import THEN Resolved("Stored (certification failed)", in.blob)
            ELSE IF ~in.registry THEN Resolved("Stored (not certified)", in.blob)
            ELSE Awaiting
      [] r = "part_003" ->
            IF in.blob = "" \/ ~in.cert THEN RejectedCall
            ELSE IF in.adapter # "signer" THEN RejectedCall
            ELSE Awaiting

\* The function after signAndExecuteTransactionBlock settled as `outcome`.
AfterSign(r, in, outcome) ==
    CASE r = "main" ->
            IF outcome = "ok" THEN Resolved("Certified", in.blob)
            ELSE Resolved("Stored (certification failed)", in.blob)
      [] r = "part_003" ->
            IF outcome = "ok" THEN Resolved(NONE, NONE) ELSE RejectedCall
      [] r = "part_002" -> Resolved("Stored", in.blob)

CertifyIdle ==
    /\ crev = "main"
    /\ cin = [blob |-> "", cert |-> FALSE, adapter |-> "null", package |-> FALSE,
              registry |-> FALSE, import |-> FALSE]
    /\ cstep = "idle"
    /\ cout = Unsettled

CertifyInit ==
    /\ crev \in CertifyRevisions
    /\ cin \in CertifyInputs
    /\ cstep = "idle"
    /\ cout = Unsettled

\* certifyBlobOnChain is called and runs to its wallet call or to its end.
certifyBlobOnChain ==
    /\ cstep = "idle"
    /\ IF BeforeSign(crev, cin) = Awaiting
       THEN /\ cstep' = "sign"
            /\ cout' = cout
       ELSE /\ cstep' = "done"
            /\ cout' = BeforeSign(crev, cin)
    /\ UNCHANGED <<crev, cin>>
    /\ UNCHANGED nonCertifyVars

\* signAndExecuteTransactionBlock resolves or rejects.
SignSettles(outcome) ==
    /\ cstep = "sign"
    /\ cstep' = "done"
    /\ cout' = AfterSign(crev, cin, outcome)
    /\ UNCHANGED <<crev, cin>>
    /\ UNCHANGED nonCertifyVars

CertifyNext ==
    \/ certifyBlobOnChain
    \/ \E outcome \in {"ok", "throw"} : SignSettles(outcome)

(***************************************************************************)
(* Specifications                                                          *)
(***************************************************************************)

\* WalletSpec: a first visit, where window.suiWallet has not granted access
\* before and the standard wallet has every feature; AppWalletSpec covers
\* the other wallets, installed before the page's first click.
WalletSpecInit == WalletInit /\ ~granted /\ canSign /\ UploadIdle /\ ScriptIdle /\ ChatIdle /\ SessionIdle /\ CertifyIdle /\ CompletionIdle /\ SerialIdle

WalletSpec == WalletSpecInit /\ [][WalletNext]_vars

AppWalletSpecInit == WalletInit /\ UploadIdle /\ ScriptIdle /\ ChatIdle /\ SessionIdle /\ CertifyIdle /\ CompletionIdle /\ SerialIdle

AppWalletSpec == AppWalletSpecInit /\ [][AppWalletNext]_vars

\* AdapterSpec: wallets that have not granted access before, with or without
\* the sign feature.
AdapterSpecInit == WalletInit /\ ~granted /\ UploadIdle /\ ScriptIdle /\ ChatIdle /\ SessionIdle /\ CertifyIdle /\ CompletionIdle /\ SerialIdle

AdapterSpec == AdapterSpecInit /\ [][AdapterNext]_vars

\* Timers fire: a pending polling delay always ends.
FairWalletSpec == WalletSpec /\ WF_vars(PollWake)

UploadSpecInit == UploadInit /\ WalletIdle /\ ScriptIdle /\ ChatIdle /\ SessionIdle /\ CertifyIdle /\ CompletionIdle /\ SerialIdle

UploadSpec == UploadSpecInit /\ [][UploadNext]_vars

ScriptSpecInit == ScriptInit /\ WalletIdle /\ UploadIdle /\ ChatIdle /\ SessionIdle /\ CertifyIdle /\ CompletionIdle /\ SerialIdle

ScriptSpec == ScriptSpecInit /\ [][ScriptNext]_vars

ChatSpecInit == ChatInit /\ WalletIdle /\ UploadIdle /\ ScriptIdle /\ SessionIdle /\ CertifyIdle /\ CompletionIdle /\ SerialIdle

ChatSpec == ChatSpecInit /\ [][ChatNext]_vars

SessionSpecInit == SessionInit /\ CertifyIdle /\ WalletIdle /\ UploadIdle /\ ScriptIdle /\ ChatIdle /\ CompletionIdle /\ SerialIdle

SessionSpec == SessionSpecInit /\ [][SessionNext]_vars

WizardSpecInit ==
    WizardInit /\ WalletIdle /\ UploadIdle /\ ChatIdle /\ SessionIdle /\ CertifyIdle /\ CompletionIdle
        /\ SerialIdle

WizardSpec == WizardSpecInit /\ [][WizardNext]_vars

CompletionSpecInit ==
    CompletionInit /\ WalletIdle /\ UploadIdle /\ ScriptIdle /\ ChatIdle /\ SessionIdle /\ CertifyIdle
        /\ SerialIdle

SerialSpecInit ==
    SerialInit /\ WalletIdle /\ UploadIdle /\ ScriptIdle /\ ChatIdle /\ SessionIdle /\ CertifyIdle
        /\ CompletionIdle

SerialSpec == SerialSpecInit /\ [][SerialNext]_vars

\* MonitorSpec: a device that sends whole lines, and TEST MODE.
MonitorChunks ==
    { GoodLine \o <<"\r", NL>>,
      GoodLine \o <<NL>> \o Garbage \o <<NL>> \o OtherLine \o <<NL>> }

MonitorNext ==
    \/ connectSerial
    \/ toggleSimulation
    \/ \E emit \in BOOLEAN : SimulationFrame(emit)
    \/ \E chunk \in MonitorChunks : ReadChunk(chunk)
    \/ ReadEnds

MonitorSpec == SerialSpecInit /\ [][MonitorNext]_vars

CompletionSpec == CompletionSpecInit /\ [][CompletionNext]_vars

\* Every request settles and every backoff timer fires.
CertifySpecInit ==
    CertifyInit /\ WalletIdle /\ UploadIdle /\ ScriptIdle /\ ChatIdle /\ SessionIdle
        /\ CompletionIdle /\ SerialIdle

CertifySpec == CertifySpecInit /\ [][CertifyNext]_vars

FairCompletionSpec ==
    /\ CompletionSpec
    /\ WF_vars(\E text \in {"", "hello"} : AttemptSucceeds(text))
    /\ WF_vars(\E m \in ErrorMessages : AttemptFails(m))
    /\ WF_vars(BackoffEnds)
    /\ WF_vars(CallStart)

(***************************************************************************)
(* Claims                                                                  *)
(***************************************************************************)

\* The wallet shapes the strategies of revision r can connect through.
Supported(r) == UNION {{Strategies(r)[s][j] : j \in 1..Len(Strategies(r)[s])} :
                       s \in 1..Len(Strategies(r))}

\* A connect call has settled in which every wallet is of a supported shape
\* and no wallet call was refused or failed.
GrantingRun == wpc = "done" /\ ~denied /\ present \subseteq Supported(rev)

\* C1 (as stated): connectSuiWallet resolves with the wallet's address if and
\* only if the wallet was present at or before the last polling check, and
\* otherwise rejects with a not-found error.
C1_AddressIffPresentAtLastCheck ==
    GrantingRun =>
        /\ connResult.kind = "ok" <=> presentAtLastCheck # {}
        /\ connResult.kind # "ok" => connResult.err = "NotFound"

\* C1 (amended): connectSuiWallet resolves with the address of a present
\* wallet if and only if a wallet was present at or before the last polling
\* check or, in the revisions that attempt the connection anyway after the
\* timeout (revision 2 and part_000), by the end of the final polling delay;
\* otherwise it rejects with a not-found error.
C1_AddressIffPresentWhenTried ==
    GrantingRun =>
        LET P == IF rev = 1 THEN presentAtLastCheck ELSE presentAtWaitEnd
        IN /\ connResult.kind = "ok" <=> P # {}
           /\ connResult.kind = "ok" => connResult.addr \in {Addr(k) : k \in P}
           /\ connResult.kind # "ok" => connResult.err = "NotFound"

\* A wallet injected between two polling checks was connected.
C1_Witness ==
    /\ GrantingRun
    /\ connResult.kind = "ok"
    /\ checks >= 2
    /\ presentAtLastCheck # {}

\* C2: when no wallet appears during the whole polling window, connectSuiWallet
\* rejects with a not-found error only after every polling check has been
\* performed, and it does reject: the wait never lasts forever.
C2_RejectsAfterFullWait ==
    /\ [](wpc = "done" /\ presentAtWaitEnd = {}
            => connResult = Err("NotFound") /\ checks = Retries)
    /\ (wpc = "sleep" /\ present = {})
          ~> ((wpc = "done" /\ connResult = Err("NotFound")) \/ present # {})

C2_Witness ==
    /\ wpc = "done"
    /\ presentAtWaitEnd = {}
    /\ present = {}
    /\ connResult = Err("NotFound")
    /\ checks = Retries

\* C3: disconnectSuiWallet called when no connect has ever succeeded does not
\* reject, and no adapter is active afterwards.
C3_DisconnectWithoutConnect ==
    ~everConnected =>
        /\ disconnectResult \in {NONE, "resolved"}
        /\ activeWalletAdapter = NULL

\* disconnectSuiWallet has run with wallet objects present, none ever connected.
C3_Witness ==
    /\ ~everConnected
    /\ disconnectResult = "resolved"
    /\ DisconnectTarget(rev, present) # NONE

\* C8: a connect that succeeds leaves exactly the adapter of the wallet that
\* returned the account, and returns that wallet's address, whatever adapter
\* was active before: the prior adapter is replaced, never kept.
C8_ConnectReplacesAdapter ==
    [][(wpc = "call" /\ wpc' = "done" /\ connResult'.kind = "ok")
          => /\ connResult'.addr = Addr(callee)
             /\ rev # 1 => activeWalletAdapter' = AdapterOf(rev, callee)]_vars

\* A connect succeeded through another wallet while an adapter was active.
C8_Witness ==
    /\ wpc = "done"
    /\ connResult.kind = "ok"
    /\ adapterAtStart # NULL
    /\ activeWalletAdapter # NULL
    /\ activeWalletAdapter # adapterAtStart

\* The blob identifiers a response body carries.
IdsIn(b) == {b.boId, b.ncId, b.acId, b.topId} \ {""}

Failed(resp) == resp.kind \in {"net", "http"}

\* uploadSessionViaWalrusSDK has settled.
MultiDone == ufn = "multi" /\ upc = "done"

\* C4: when the first N-1 attempts fail (network error or non-2xx status) and
\* the Nth succeeds, uploadSessionViaWalrusSDK returns the blob identifier of
\* the Nth endpoint's response.
C4_ReturnsNthIdentifier ==
    ( /\ MultiDone
      /\ \A i \in 1..(nPub - 1) : Failed(replies[i])
      /\ replies[nPub].kind = "ok"
      /\ IdsIn(replies[nPub].body) # {} )
    => /\ uresult.kind = "ok"
       /\ uresult.blobId \in IdsIn(replies[nPub].body)

\* Two endpoints failed, one by each kind of failure, and the third succeeded.
C4_Witness ==
    /\ MultiDone
    /\ nPub >= 3
    /\ \A i \in 1..(nPub - 1) : Failed(replies[i])
    /\ \E i, j \in 1..(nPub - 1) : replies[i].kind = "net" /\ replies[j].kind = "http"
    /\ replies[nPub].kind = "ok"
    /\ uresult.kind = "ok"

\* C5: when all N attempts fail, whatever the kind of each failure,
\* uploadSessionViaWalrusSDK rejects with the aggregate error, whose message
\* mentions the underlying error of the last attempt.
C5_AggregateMentionsLastError ==
    (MultiDone /\ \A i \in 1..nPub : Failed(replies[i]))
    => /\ uresult.kind = "err"
       /\ uresult.msg = "aggregate"
       /\ uresult.last = replies[nPub].kind

\* C10: when the publisher's last answer has a success status and carries no
\* blob identifier, the upload ends in an error; no upload returns a result
\* whose blobId is empty or undefined.
C10_NoResultWithoutIdentifier ==
    upc = "done" =>
        /\ (replies[ui].kind = "ok" /\ IdsIn(replies[ui].body) = {})
           => uresult.kind = "err"
        /\ uresult.kind = "ok" => uresult.blobId # ""

\* The text after the fixed header.
BodyOf(script) == SubSeq(script, Len(ScriptHeader) + 1, Len(script))

\* The points that carry a (non-empty) user message or plant response.
Carrying(data) ==
    {i \in 1..Len(data) : Truthy(data[i].userMessage) \/ Truthy(data[i].plantResponse)}

SingleLine(t) == t = NONE \/ \A i \in 1..Len(t) : t[i] # NL

\* The lines of a non-empty text: one more than its line breaks.
LineCount(t) == 1 + Cardinality({i \in 1..Len(t) : t[i] = NL})

\* C6 (as stated): the body of the exported script has exactly as many lines
\* as there are points carrying a user message or a plant response.
C6_BodyLinesEqualUtterances ==
    blobScript # NONE =>
        LineCount(BodyOf(blobScript)) = Cardinality(Carrying(currentSessionData))

\* C6 (amended): when no point carries an utterance the body is the single
\* placeholder line; otherwise, provided no utterance contains a line break,
\* the body has exactly one non-empty line per carrying point (separated by
\* empty lines) and points with neither contribute none.
C6_BodyLinesOrPlaceholder ==
    blobScript # NONE =>
        LET data == currentSessionData
            body == BodyOf(blobScript)
        IN /\ Carrying(data) = {} => body = Placeholder
           /\ ( /\ Carrying(data) # {}
                /\ \A i \in 1..Len(data) : /\ SingleLine(data[i].userMessage)
                                           /\ SingleLine(data[i].plantResponse) )
              => /\ NonBlankLines(body) = Cardinality(Carrying(data))
                 /\ Len(body) = 4 * Cardinality(Carrying(data)) - 2

\* A script was built from a transcript with a carrying point and one without.
C6_Witness ==
    /\ blobScript # NONE
    /\ Len(currentSessionData) >= 2
    /\ Cardinality(Carrying(currentSessionData)) = 1
    /\ \A i \in 1..Len(currentSessionData) :
          /\ SingleLine(currentSessionData[i].userMessage)
          /\ SingleLine(currentSessionData[i].plantResponse)

\* The positions of history whose turn has the same role as the next one.
Repeats(h) == {i \in 1..(Len(h) - 1) : h[i].role = h[i + 1].role}

\* C7: merging leaves a strictly alternating history unchanged; a history with
\* an immediate repeat of a role yields one turn fewer, the two repeated turns
\* replaced by one whose text is theirs in order, joined by one line break.
C7_MergeAlternatingOrOneRepeat ==
    gpc = "merged" =>
        /\ Repeats(history) = {} => contents = history
        /\ Cardinality(Repeats(history)) = 1 =>
              LET i == CHOOSE r \in Repeats(history) : TRUE
              IN /\ Len(contents) = Len(history) - 1
                 /\ \A j \in 1..(i - 1) : contents[j] = history[j]
                 /\ contents[i] = [role |-> history[i].role,
                                   text |-> history[i].text \o <<NL>> \o history[i + 1].text]
                 /\ \A j \in (i + 1)..Len(contents) : contents[j] = history[j + 1]

\* A history with one repeat in its middle has been merged.
C7_Witness ==
    /\ gpc = "merged"
    /\ Len(history) >= 4
    /\ Repeats(history) = {2}

\* C9: the points of the session transcript are in non-decreasing timestamp
\* order, whatever the interleaving of user messages, touch and system
\* timers and replies.
C9_TranscriptTimestampsOrdered ==
    \A i, j \in 1..Len(sessionData) :
        i < j => sessionData[i].timestamp <= sessionData[j].timestamp

\* Replies of overlapping interactions were recorded at different times.
C9_Witness ==
    /\ Len(sessionData) >= 3
    /\ started >= 2
    /\ sessionData[1].timestamp < sessionData[Len(sessionData)].timestamp
    /\ \E i \in 1..(Len(sessionData) - 1) :
          sessionData[i].kind = "plant" /\ sessionData[i + 1].kind = "plant"

\* The identifier of a body of the 'newly created' shape (nested identifier)
\* or of the 'already certified' shape (direct identifier); "" for other bodies.
ShapeId(b) ==
    IF b.nc /\ b.bo /\ b.boId # "" THEN b.boId
    ELSE IF ~b.nc /\ b.ac /\ b.acId # "" THEN b.acId
    ELSE ""

\* C11: for a successful publisher response of the 'newly created' or the
\* 'already certified' shape, uploadToWalrus returns exactly that identifier
\* as blobId, with the url <aggregator base of the network>/v1/<blobId>.
C11_StoreReturnsIdentifierAndUrl ==
    ( /\ ufn = "store"
      /\ upc = "done"
      /\ replies[1].kind = "ok"
      /\ ShapeId(replies[1].body) # "" )
    => /\ uresult.kind = "ok"
       /\ uresult.blobId = ShapeId(replies[1].body)
       /\ uresult.url = <<AggregatorOf(network), "/v1/", uresult.blobId>>

\* uploadToWalrus on MAINNET returned for an 'already certified' response.
C11_Witness ==
    /\ ufn = "store"
    /\ upc = "done"
    /\ network = "MAINNET"
    /\ replies[1].kind = "ok"
    /\ replies[1].body.ac
    /\ uresult.kind = "ok"
    /\ uresult.blobId = "b2"

\* C12: when a connection strategy throws or rejects, the error is swallowed
\* and the next applicable strategy is attempted: a wallet call whose failure
\* ends connectSuiWallet with a rejection was the last applicable strategy.
C12_RejectsOnlyAfterEveryStrategy ==
    [][(wpc = "call" /\ wpc' = "done" /\ connResult'.kind = "err")
          => NextStep(rev, present, step + 1) = 0]_vars

\* The texts generatePlantResponse returns for a reply of the model.
ModelReplies == {"hello", "I'm listening..."}

\* C13: when the chat-completion request fails (after any retries),
\* generatePlantResponse propagates the error: a request whose settling ends
\* the call without a reply of the model ends it with a rejection.
C13_FailurePropagatesToCaller ==
    [][(cpc = "request" /\ cpc' = "done" /\ gresult'.text \notin ModelReplies)
          => gresult'.kind = "rejected"]_vars

\* C15: after an attempt fails with an authentication-looking error,
\* generatePlantResponse makes no further attempt, whatever else the message
\* contains: a request is made only when the last failure was not
\* authentication-looking.
C15_NoAttemptAfterAuthError ==
    [][requests' > requests
          => (lastError = <<>> \/ ~AuthLooking(lastError[1]))]_vars

\* A call of the second revision ended at its second attempt on an error that
\* looks both authentication-like and transient.
C15_Witness ==
    /\ grev = 2
    /\ cpc = "done"
    /\ requests = 2
    /\ lastError # <<>>
    /\ AuthLooking(lastError[1])
    /\ TransientLooking(lastError[1])

C14_FailedUploadResetsWizard ==
    /\ [][failures' > failures
             => /\ uploadStep' = "IDLE"
                /\ marketplaceListings' = marketplaceListings
                /\ mintedBlob' = mintedBlob]_vars
    /\ [](Len(marketplaceListings) = Len(MockListings) + succeeded)
    /\ [](succeeded = savedAt => mintedBlob = NULL)

\* A run failed at the upload and nothing was minted or listed.
C14_Witness ==
    /\ failures >= 1
    /\ succeeded = 0
    /\ uploadStep = "IDLE"
    /\ mintedBlob = NULL
    /\ marketplaceListings = MockListings
    /\ blobScript # NONE

\* C17: during uploadSessionViaWalrusSDK at most one publisher request is
\* outstanding; publisher i+1 is contacted only after the attempt against
\* publisher i has completed with a failure; after the first successful
\* attempt no further publisher is contacted.
C17_PublishersTriedOneAtATime ==
    /\ [](Cardinality(outstanding) <= 1)
    /\ [][(ufn = "multi" /\ ui >= 1 /\ ui' # ui)
             => /\ ui' = ui + 1
                /\ TryMulti(replies[ui]).t # "return"
                /\ outstanding' = {ui'}]_vars
    /\ []((ufn = "multi" /\ upc = "done" /\ uresult.kind = "ok")
             => /\ outstanding = {}
                /\ TryMulti(replies[ui]).t = "return"
                /\ \A j \in 1..(ui - 1) : TryMulti(replies[j]).t # "return")

\* The second of three publishers succeeded; the third was never contacted.
C17_Witness ==
    /\ ufn = "multi"
    /\ upc = "done"
    /\ uresult.kind = "ok"
    /\ nPub = 3
    /\ ui = 2
    /\ outstanding = {}

\* C18: at most one chat interaction (a processInteraction run awaiting
\* generatePlantResponse) is in flight at any time.
C18_OneInteractionInFlight == inflight <= 1

\* C19: the session transcript changes only by appending one point at its
\* end, and only while a session is active: existing points are never
\* removed, reordered or modified, and nothing is appended after the session
\* has ended, not even by a reply that was in flight then.
C19_TranscriptAppendOnlyWhileRecording ==
    [][sessionData' # sessionData
          => /\ isRecording
             /\ Len(sessionData') = Len(sessionData) + 1
             /\ SubSeq(sessionData', 1, Len(sessionData)) = sessionData]_vars

\* A user message was recorded, the session ended, and the reply that was in
\* flight arrived without being recorded.
C19_Witness ==
    /\ ~isRecording
    /\ inflight = 0
    /\ sessionData # <<>>
    /\ sessionData[Len(sessionData)].kind = "user"
    /\ messages # <<>>
    /\ messages[Len(messages)] = "model"

\* A read delivered lines and the pattern matches none of them.
OnlyUnmatchedLines ==
    /\ chunksRead' = chunksRead + 1
    /\ lastLines' # <<>>
    /\ \A i \in 1..Len(lastLines') : Match(lastLines'[i]) = <<>>

\* C20 (as stated): receiving a line that does not match the TOP/VAL/INT
\* format changes no state: the sensor buffer is unchanged, the line is not
\* stored in any buffer, and no error is raised.
C20_MalformedLineChangesNothing ==
    [][OnlyUnmatchedLines
          => /\ hardwareBuffer' = hardwareBuffer
             /\ rawSerialBuffer' = rawSerialBuffer
             /\ rxActive' = rxActive
             /\ isConnected']_vars

\* C20 (amended): a line the pattern does not match leaves the sensor buffer
\* unchanged and raises no error (the read loop goes on); it is appended to
\* the raw monitor, which keeps the last RawLimit lines, and the receive
\* indicator is switched on.
C20_MalformedLineOnlyMonitored ==
    [][OnlyUnmatchedLines
          => /\ hardwareBuffer' = hardwareBuffer
             /\ isConnected'
             /\ rawSerialBuffer' = LastLines(rawSerialBuffer \o lastLines')
             /\ Len(rawSerialBuffer') <= RawLimit
             /\ rxActive']_vars

\* After a reading was stored, a read delivered only unmatched lines.
C20_Witness ==
    /\ lastLines # <<>>
    /\ \A i \in 1..Len(lastLines) : Match(lastLines[i]) = <<>>
    /\ hardwareBuffer # Reading(<<"0">>, <<"0">>)
    /\ Len(rawSerialBuffer) >= 4

\* C21: a standard wallet that announced itself through the registration
\* event is held by detectedWallets, exactly once however often it announces
\* itself, and the presence check observes it.
C21_AnnouncedWalletIsCandidate ==
    "evt" \in present =>
        /\ Cardinality({i \in 1..Len(detected) : detected[i] = "evt"}) = 1
        /\ checkSuiWalletInstalled(rev, present)

\* C22: when the wallet's own disconnect throws, disconnectSuiWallet still
\* resolves, the active adapter is cleared, and handleConnectWallet goes on
\* to clear walletAddress.
C22_DisconnectFailureStillClears ==
    [][/\ disconnecting' > disconnecting => activeWalletAdapter' = NULL
       /\ (disconnecting' < disconnecting /\ walletDisconnect' = "throw")
             => /\ disconnectResult' = "resolved"
                /\ walletAddress' = NoAddress]_vars

\* A connected wallet's disconnect threw and the page shows no address.
C22_Witness ==
    /\ everConnected
    /\ walletDisconnect = "throw"
    /\ disconnectResult = "resolved"
    /\ activeWalletAdapter = NULL
    /\ walletAddress = NoAddress
    /\ disconnecting = 0

\* C23: once the session has ended no interaction starts, not even one a
\* session-start timer or a touch timer had scheduled, while the reply of an
\* interaction in flight is still added to the message list.
C23_EndedSessionStartsNothing ==
    [][/\ started' > started => isRecording
       /\ inflight' < inflight
             => /\ Len(messages') = Len(messages) + 1
                /\ messages'[Len(messages')] = "model"]_vars

\* C24: the turns sent to the chat API never hold two adjacent turns of the
\* same role, and the last turn sent is the user's.
C24_TurnsAlternate ==
    /\ \A i \in 1..(Len(contents) - 1) : contents[i].role # contents[i + 1].role
    /\ (gpc = "sent" /\ history # <<>>)
          => contents[Len(contents)].role = "user"

\* A history with repeated roles that ends with a user turn was sent with the prompt.
C24_Witness ==
    /\ gpc = "sent"
    /\ Len(history) = MaxHistory
    /\ Repeats(history) # {}
    /\ history[Len(history)].role = "user"
    /\ Len(contents) >= 2

\* The position of a wallet object in the order standard, suiWallet, suiet,
\* sui, dynamic scan.
Rank(k) ==
    CASE k \in {"nav", "evt"} -> 1
      [] k = "suiWallet" -> 2
      [] k = "suiet" -> 3
      [] k = "sui" -> 4
      [] k = "dyn" -> 5

\* C25: connectSuiWallet contacts the strategies in the order standard,
\* suiWallet, suiet, sui, dynamic scan; a further strategy is contacted only
\* when the earlier ones yielded no account; the address and the adapter
\* come from the strategy that yielded one, the last one contacted.
C25_StrategiesInFixedOrder ==
    [][/\ \A i \in 1..(Len(tried') - 1) : Rank(tried'[i]) < Rank(tried'[i + 1])
       /\ Len(tried') > Len(tried)
             => /\ connResult' = NoResult
                /\ UNCHANGED <<activeWalletAdapter, walletAddress>>
       /\ (connResult'.kind = "ok" /\ connResult # connResult')
             => /\ tried' # <<>>
                /\ connResult'.addr = Addr(tried'[Len(tried')])
                /\ rev # 1 => activeWalletAdapter' = AdapterOf(rev, tried'[Len(tried')])]_vars

\* Two strategies yielded no account and the third one connected.
C25_Witness ==
    /\ connResult.kind = "ok"
    /\ Len(tried) >= 3
    /\ connResult.addr = Addr(tried[Len(tried)])

\* C26: waitForWallet stops polling at the first check that observes a
\* wallet; when the retries run out, connectSuiWallet does not fail on the
\* timeout but goes through the strategies (it ends at once only when none
\* of them applies).
C26_TimeoutStillConnects ==
    [][/\ (checks' = checks + 1 /\ checkSuiWalletInstalled(rev, present))
             => wpc' # "sleep"
       /\ (wpc = "sleep" /\ wpc' = "done" /\ checks' = checks)
             => \A s \in 1..Len(Strategies(rev)) : StepTarget(rev, s, present) = NONE]_vars

\* C27: a legacy wallet that already reports an account is connected without
\* requestPermissions being called, and its first account is returned.
C27_GrantedLegacySkipsPermission ==
    /\ granted => ~askedPermission
    /\ (granted /\ wpc = "done" /\ tried # <<>> /\ tried[Len(tried)] = "suiWallet")
          => connResult.kind = "ok" /\ connResult.addr = Addr("suiWallet")

\* C28: getWalletAdapter returns the active adapter when one is set,
\* otherwise the first existing global of suiWallet, suiet, sui, and null
\* when none exists.
C28_AdapterOrFirstLegacyGlobal ==
    [][<<signer, signResult, forwarded>>' # <<signer, signResult, forwarded>>
          => signer' = IF activeWalletAdapter # NULL THEN activeWalletAdapter
                       ELSE IF "suiWallet" \in present THEN "suiWallet"
                       ELSE IF "suiet" \in present THEN "suiet"
                       ELSE IF "sui" \in present THEN "sui"
                       ELSE NULL]_vars

\* After a disconnect the adapter is the second legacy global, the first being absent.
C28_Witness ==
    /\ everConnected
    /\ activeWalletAdapter = NULL
    /\ "suiWallet" \notin present
    /\ {"suiet", "sui"} \subseteq present
    /\ signer = "suiet"

\* C29: a standard wallet without the sign feature still connects and gives
\* its address; a sign request on its adapter fails as unsupported and
\* nothing is handed to the wallet.
C29_ConnectsButCannotSign ==
    /\ (~canSign /\ signer \in {"wrapper(nav)", "wrapper(evt)"})
          => signResult = "unsupported" /\ forwarded = <<>>
    /\ (~canSign /\ wpc = "done" /\ connResult.kind = "ok")
          => connResult.addr = Addr(tried[Len(tried)])

\* Such a wallet is connected and was asked to sign.
C29_Witness ==
    /\ ~canSign
    /\ connResult.kind = "ok"
    /\ walletAddress = Addr("nav")
    /\ signer = "wrapper(nav)"
    /\ signResult = "unsupported"

\* C30: a request the standard adapter hands to the wallet carries the first
\* account the connect call returned and the wallet's first chain, whatever
\* the caller's input held.
C30_ForwardedAccountIsConnected ==
    (signResult = "forwarded" /\ signer \in {"wrapper(nav)", "wrapper(evt)"})
        => /\ forwarded[1].account = Addr(Wrapped(signer))
           /\ forwarded[1].chain = FirstChain(Wrapped(signer))

\* C31: certifyBlobOnChain never rejects: whatever the configuration, the
\* adapter and the outcome of the signing call, it resolves with a status
\* and the blob identifier it was given.
C31_CertifyNeverRejects ==
    cstep = "done"
        => /\ cout.kind = "resolved"
           /\ cout.status # NONE
           /\ cout.blobId = cin.blob

\* C32: whenever no connect and no disconnect is in progress, App shows an
\* address exactly when the wallet service holds an adapter (revision 1 of
\* the service keeps no adapter).
C32_AddressIffAdapter ==
    (rev # 1 /\ ~isConnecting /\ disconnecting = 0)
        => (walletAddress # NoAddress <=> activeWalletAdapter # NULL)

\* C33: handleConnectWallet calls connectSuiWallet only when the presence
\* test holds at the click; when it does not, no connect starts and
\* walletAddress and isConnecting stay as they are.
C33_ConnectOnlyWhenInstalled ==
    [][/\ (~isConnecting /\ isConnecting') => checkSuiWalletInstalled(rev, present)
       /\ (wpc # wpc' \/ checks # checks') => checkSuiWalletInstalled(rev, present)
       /\ (alerted' /\ ~alerted)
             => /\ ~checkSuiWalletInstalled(rev, present)
                /\ UNCHANGED <<walletAddress, wpc, checks, connResult,
                               activeWalletAdapter>>]_vars

\* A wallet is there, the presence test does not see it, and the click only alerted.
C33_Witness ==
    /\ alerted
    /\ present # {}
    /\ wpc = "idle"
    /\ checks = 0
    /\ walletAddress = NoAddress

\* C34: whenever uploadStep is SUCCESS, mintedBlob is a record whose id is the
\* identifier the storage upload returned, and marketplaceListings holds it;
\* no run whose upload returned no identifier reaches SUCCESS.
C34_SuccessHasIdentifier ==
    uploadStep = "SUCCESS"
        => /\ mintedBlob # NULL
           /\ mintedBlob # "undefined"
           /\ \E i \in 1..Len(marketplaceListings) : marketplaceListings[i] = mintedBlob

\* C35: at most one processUpload run is in flight (at one of its awaits) at
\* any time, however opening the dialog, closing it and clicking the upload
\* button interleave.
C35_OneRunInFlight ==
    runs["analyze"] + runs["encrypt"] + runs["upload"] <= 1

\* C36: a failed analysis call (no key, request error, empty or unparsable
\* response) never aborts an upload: analyzeDatasetValue resolves with the
\* fallback metadata (price suggestion 50) and the run goes on to ENCRYPTING
\* and from there to UPLOADING.
C36_AnalysisFailureNeverAborts ==
    [][/\ (runs'["analyze"] < runs["analyze"] /\ analysis'.response # "json")
            => /\ analysis'.value = Fallback
               /\ analysis'.value.priceSuggestion = 50
               /\ runs'["encrypt"] = runs["encrypt"] + 1
               /\ uploadStep' = "ENCRYPTING"
               /\ failures' = failures
       /\ runs'["encrypt"] < runs["encrypt"]
            => /\ runs'["upload"] = runs["upload"] + 1
               /\ uploadStep' = "UPLOADING"]_vars

C36_Witness ==
    /\ analysis.response = "unparsable"
    /\ analysis.value.priceSuggestion = 50
    /\ uploadStep = "UPLOADING"
    /\ runs["upload"] = 1
    /\ failures = 0

\* C37: one continuous touch starts at most one TOUCH interaction, and a
\* touch released before its 500 ms timer fired starts none: the timer of a
\* released touch starts no interaction.
C37_OneTouchOneInteraction ==
    [][isRecording
         => /\ touchStarts' <= 1
            /\ (touchTimers' < touchTimers /\ staleTimers > 0) => started' = started]_vars

\* C38: a device connection and the simulation are never active together.
C38_NeverConnectedAndSimulating == ~(isConnected /\ isSimulationEnabled)

\* A device was connected while TEST MODE was on and had written lines.
C38_Witness ==
    /\ isConnected
    /\ ~isSimulationEnabled
    /\ simLines > 0
    /\ chunksRead > 0

\* The last lines of a sequence, oldest first, at most RawLimit of them.
MostRecent(all) ==
    [i \in 1..(IF Len(all) > RawLimit THEN RawLimit ELSE Len(all)) |->
        all[i + (IF Len(all) > RawLimit THEN Len(all) - RawLimit ELSE 0)]]

\* C39: rawSerialBuffer never holds more than 8 lines, and after every
\* received or simulated line it is the most recent lines in arrival order:
\* what it held followed by the new lines, the oldest dropped first.
C39_MonitorKeepsMostRecent ==
    [][/\ Len(rawSerialBuffer') <= 8
       /\ chunksRead' > chunksRead
            => rawSerialBuffer' = MostRecent(rawSerialBuffer \o lastLines')
       /\ simLines' > simLines
            => rawSerialBuffer' = MostRecent(Append(rawSerialBuffer, SimLine))
       /\ (chunksRead' = chunksRead /\ simLines' = simLines)
            => rawSerialBuffer' = rawSerialBuffer]_vars

\* The monitor is full of received and simulated lines, and older lines of
\* both kinds were dropped.
C39_Witness ==
    /\ Len(rawSerialBuffer) = RawLimit
    /\ chunksRead = 3
    /\ simLines = 3
    /\ rawSerialBuffer[RawLimit] = SimLine
    /\ rawSerialBuffer[1] # SimLine

=============================================================================
